---- MODULE Spec2Model ----
(***************************************************************************)
(* DraXon OCULUS: the external-data synchronisation and monitoring engine. *)
(*                                                                         *)
(*   SpecFetch     RSIScraper._make_request (src/utils/rsi_scraper.py)     *)
(*   SpecMaint     check_maintenance_window as a function of the clock     *)
(*   SpecStatus    RSIStatusMonitorCog (src/cogs/rsi_status_monitor.py)    *)
(*   SpecIncident  RSIIncidentMonitorCog (src/cogs/rsi_incidents_monitor)  *)
(*                                                                         *)
(* Times of day are minutes after 00:00 UTC.                               *)
(***************************************************************************)
EXTENDS Integers, Sequences, FiniteSets, TLC

VARIABLES
    \* ---- RSIScraper._make_request ----
    fetch_pc,        \* "idle" | "loop" | "done": position in _make_request
    method,          \* "get" | "post"
    attempt,         \* loop variable of `for attempt in range(max_retries)`
    requests,        \* HTTP requests issued by the current call
    responses,       \* what each request of the current call came back with
    result,          \* "pending" | "response" | "None"
    \* ---- check_maintenance_window as a function ----
    mw_now, mw_start, mw_duration,   \* the clock and the configuration tried
    mw_result,                       \* "unset" | "True" | "False"
    \* ---- RSIStatusMonitorCog ----
    now,                  \* datetime.utcnow().time(), minutes after 00:00
    system_statuses,      \* self.system_statuses
    redis_system_status,  \* redis key 'system_status': <<>> or <<[value, ttl]>>
    status_history,       \* redis list 'status_history', newest first
    check_log,            \* what the latest check_status call was fed and did
    \* ---- RSIIncidentMonitorCog ----
    inc_loaded,           \* the cog is loaded and check_incidents_task runs
    incident_table,       \* which CREATE TABLE IF NOT EXISTS made incident_history
    incident_history,     \* rows of table incident_history, in insertion order
    last_incident_guid,   \* self.last_incident_guid: <<>> (None) or <<guid>>
    redis_latest_incident,\* redis key 'latest_incident': <<>> or <<[value, ttl]>>
    redis_last_incident_id, \* redis key 'last_incident_id'
    inc_pc,               \* per caller: "idle" | "store" (about to INSERT)
    inc_cur,              \* per caller: the incident it holds, <<>> if none
    announced,            \* messages sent to the incidents channel
    insert_count,         \* per guid: INSERTs executed for it
    first_inserted,       \* per guid: the incident of the first INSERT, or <<>>
    emitted,              \* new-incident events check_incidents_task raised
    inc_log,              \* what the latest finished tick was served and did
    \* ---- RSIIntegrationCog.get_org_members ----
    crawl_pc,             \* "idle" | "loop" | "done": position in get_org_members
    crawl_page,           \* local `page`
    crawl_members,        \* local `members`
    crawl_result,         \* what the latest finished call returned
    page_calls,           \* the pages the current call asked for and what it got
    redis_org_members,    \* redis key 'org_members:<SID>': <<>> or <<list>>
    redis_org_page,       \* redis keys 'org_members:<SID>:page:<n>', per page
    empty_pages,          \* pages whose latest fetch, still within the per-page
                          \* TTL, found no member
    \* ---- MembershipMonitorCog.check_member_roles ----
    guild_roles,          \* the guild's rank roles, lowest position first
    member_roles,         \* per guild member: the rank roles the member holds
    rsi_members,          \* per guild member: <<>> or <<row of rsi_members>>
    org_roster,           \* the handles get_org_members returns
    redis_guild_handles,  \* redis key 'org_members:<guild.id>': <<>> or <<set>>
    role_history,         \* rows of table role_history
    roles_before,         \* member_roles when the latest run began
    demotion_log,         \* what the latest run returned
    recon_runs,           \* runs of check_member_roles so far
    recon_fetch,          \* how the latest run got the roster: "none" before
                          \* the first run, "cached", "fetched", "failed"
    \* ---- the two tasks.loop pollers and their exception boundary
    task_running,         \* task name -> whether its tasks.loop is still scheduled
    tick_log,             \* ticks so far: [task, point, caught_by]
    \* ---- make_request of the status and incident cogs, one GET per step
    poll_pc,              \* "idle", "loop", "done"
    poller,               \* the cog whose make_request runs, "none" before
    poll_attempt,         \* `attempt` of `for attempt in range(3)`
    poll_responses,       \* what the GETs of this call met, in order
    poll_result,          \* "pending", "None", or the text returned
    \* ---- MembershipMonitorCog.daily_checks and its before_loop
    sched_pc,             \* "before_loop", "tick_due", "sleeping"
    sched_started,        \* utcnow() when before_daily_checks began
    sched_now,            \* utcnow() in minutes since 00:00 of the day the bot started
    sched_last_check,     \* self.last_check: <<>> (None) or <<minutes>>
    sched_runs,           \* ticks of daily_checks so far
    sched_fetches,        \* the times at which a run began to crawl the roster
    \* ---- who asked for the roster
    crawl_caller,         \* "none", "get_org_members" (any other caller) or
                          \* "refresh_org_data" for the latest call
    \* ---- the member-item loop of get_organization_members
    member_item,          \* the member-item at hand: its stars element and roles
    item_pc,              \* "at_item", "processed"
    user,                 \* <<>>, or <<what the loop body made of the item>>
    \* ---- check_status run by two callers at once, await by await
    cs_pc,                \* caller -> "idle", "get_cache", "fetching", "parse",
                          \*           "set_cache", "record", "done"
    cs_content,           \* caller -> <<>>, <<the page its GET was answered with>>,
                          \*           or <<that page, the statuses parsed from it>>
    server_page,          \* the status page as the server has it now
    page_changes          \* times the server's page has changed

fetchVars == <<fetch_pc, method, attempt, requests, responses, result>>
maintVars == <<mw_now, mw_start, mw_duration, mw_result>>
statusVars == <<now, system_statuses, redis_system_status, status_history,
                check_log>>
incidentVars == <<inc_loaded, incident_table, incident_history, last_incident_guid,
                  redis_latest_incident, redis_last_incident_id, inc_pc, inc_cur,
                  announced, insert_count, first_inserted, emitted, inc_log>>
rosterVars == <<crawl_pc, crawl_page, crawl_members, crawl_result, page_calls,
                redis_org_members, redis_org_page, empty_pages>>
reconVars == <<guild_roles, member_roles, rsi_members, org_roster,
               redis_guild_handles, role_history, roles_before, demotion_log,
               recon_runs, recon_fetch>>
taskVars == <<task_running, tick_log>>
pollVars == <<poll_pc, poller, poll_attempt, poll_responses, poll_result>>
callerVars == <<crawl_caller>>
extractVars == <<member_item, item_pc, user>>
concVars == <<cs_pc, cs_content, server_page, page_changes>>
schedVars == <<sched_pc, sched_started, sched_now, sched_last_check, sched_runs, sched_fetches>>
vars == <<fetch_pc, method, attempt, requests, responses, result,
          mw_now, mw_start, mw_duration, mw_result,
          now, system_statuses, redis_system_status, status_history, check_log,
          inc_loaded, incident_table, incident_history, last_incident_guid,
          redis_latest_incident, redis_last_incident_id, inc_pc, inc_cur,
          announced, insert_count, first_inserted, emitted, inc_log,
          crawl_pc, crawl_page, crawl_members, crawl_result, page_calls,
          redis_org_members, redis_org_page, empty_pages,
          guild_roles, member_roles, rsi_members, org_roster,
          redis_guild_handles, role_history, roles_before, demotion_log,
          recon_runs, recon_fetch, task_running, tick_log,
          poll_pc, poller, poll_attempt, poll_responses, poll_result,
          sched_pc, sched_started, sched_now, sched_last_check, sched_runs,
          sched_fetches, crawl_caller, member_item, item_pc, user,
          cs_pc, cs_content, server_page, page_changes>>

MinutesPerDay == 24 * 60

(***************************************************************************)
(* RSIScraper._make_request                                                *)
(***************************************************************************)
max_retries == 5
\* retry set with 429 forgotten
retry_statuses_no429 == {408, 500, 502, 503, 504}
retry_statuses == {408, 429, 500, 502, 503, 504}

\* Statuses the server answers with in the model: success, the retry set and
\* one status outside both.
ResponseStatuses == {200, 404} \cup {408, 429, 500, 502, 503, 504}

\* What one pass through the loop body meets.  status = 0: the request raised
\* before a response arrived (error says what).  For a status that is neither
\* 200 nor in retry_statuses the body is read (`await response.text()`), and
\* error says what that read raised.
Outcomes ==
    {[status |-> s, error |-> "none"] : s \in ResponseStatuses}
    \cup {[status |-> 0, error |-> e] : e \in {"timeout", "client", "other"}}
    \cup {[status |-> 404, error |-> "client"]}

\* only the timeout handler falls through; a client error ends the call
OnExceptionTimeoutOnly(error) ==
    IF error = "timeout" THEN "continue" ELSE "return_none"

\* except asyncio.TimeoutError / except aiohttp.ClientError: log, fall through
\* to the next iteration.  except Exception: return None.
OnException(error) ==
    IF error \in {"timeout", "client"} THEN "continue" ELSE "return_none"

\* The body of the loop for one request (identical for GET and POST).
HandleResponse(o) ==
    IF o.status = 0 THEN OnException(o.error)
    ELSE IF o.status = 200 THEN "return_response"
    ELSE IF o.status \in retry_statuses THEN "continue"
    ELSE IF o.error = "none" THEN "return_none"
    ELSE OnException(o.error)

\* range(max_retries + 1): one pass too many
LoopContinuesOffByOne(a) == a <= max_retries

\* `for attempt in range(self.max_retries)`
LoopContinues(a) == a < max_retries

FetchInit ==
    /\ fetch_pc = "idle"
    /\ method = "get"
    /\ attempt = 0
    /\ requests = 0
    /\ responses = <<>>
    /\ result = "pending"

\* A caller enters _make_request(url, method, json_data).
MakeRequestCall(m) ==
    /\ fetch_pc \in {"idle", "done"}
    /\ fetch_pc' = "loop"
    /\ method' = m
    /\ attempt' = 0
    /\ requests' = 0
    /\ responses' = <<>>
    /\ result' = "pending"
    /\ UNCHANGED <<maintVars, statusVars, incidentVars, rosterVars, reconVars, taskVars, pollVars, schedVars, callerVars, extractVars, concVars>>

\* One iteration: (sleep when attempt > 0,) issue the request, act on it.
MakeRequestAttempt(o) ==
    /\ fetch_pc = "loop"
    /\ LoopContinues(attempt)
    /\ requests' = requests + 1
    /\ responses' = Append(responses, o)
    /\ LET act == HandleResponse(o) IN
         /\ fetch_pc' = IF act = "continue" THEN "loop" ELSE "done"
         /\ attempt' = IF act = "continue" THEN attempt + 1 ELSE attempt
         /\ result' = CASE act = "return_response" -> "response"
                        [] act = "return_none" -> "None"
                        [] OTHER -> result
    /\ UNCHANGED <<method>>
    /\ UNCHANGED <<maintVars, statusVars, incidentVars, rosterVars, reconVars, taskVars, pollVars, schedVars, callerVars, extractVars, concVars>>

\* The loop ran out: "All N attempts failed", return None.
MakeRequestExhausted ==
    /\ fetch_pc = "loop"
    /\ ~LoopContinues(attempt)
    /\ fetch_pc' = "done"
    /\ result' = "None"
    /\ UNCHANGED <<method, attempt, requests, responses>>
    /\ UNCHANGED <<maintVars, statusVars, incidentVars, rosterVars, reconVars, taskVars, pollVars, schedVars, callerVars, extractVars, concVars>>

(***************************************************************************)
(* check_maintenance_window                                                *)
(***************************************************************************)
MAINTENANCE_START == 22 * 60     \* "22:00" parsed with %H:%M
MAINTENANCE_DURATION == 3        \* hours

\* maintenance_end = (today at start + timedelta(hours=duration)).time()
maintenance_end(start, duration) == (start + 60 * duration) % MinutesPerDay

\* the comparisons of the wrap-around branch turned round
check_maintenance_window_swapped(t, start, duration) ==
    LET end == maintenance_end(start, duration) IN
    IF end < start
    THEN (t <= start \/ t >= end)
    ELSE (start <= t /\ t <= end)

check_maintenance_window(t, start, duration) ==
    LET end == maintenance_end(start, duration) IN
    IF end < start
    THEN (t >= start \/ t <= end)
    ELSE (start <= t /\ t <= end)

\* Granularity of the clock values and start times tried, in minutes.
TimeStep == 30
DayTimes == {t \in 0..(MinutesPerDay - 1) : t % TimeStep = 0}
Durations == 1..24

MaintInit ==
    /\ mw_now \in DayTimes
    /\ mw_start \in DayTimes
    /\ mw_duration \in Durations
    /\ mw_result = "unset"

MaintIdle ==
    /\ mw_now = 0
    /\ mw_start = MAINTENANCE_START
    /\ mw_duration = MAINTENANCE_DURATION
    /\ mw_result = "unset"

CheckMaintenanceWindow ==
    /\ mw_result = "unset"
    /\ mw_result' = IF check_maintenance_window(mw_now, mw_start, mw_duration)
                    THEN "True" ELSE "False"
    /\ UNCHANGED <<mw_now, mw_start, mw_duration>>
    /\ UNCHANGED <<fetchVars, statusVars, incidentVars, rosterVars, reconVars, taskVars, pollVars, schedVars, callerVars, extractVars, concVars>>

(***************************************************************************)
(* RSIStatusMonitorCog                                                     *)
(***************************************************************************)
Systems == {"platform", "persistent-universe", "electronic-access"}

\* self.system_statuses as set by __init__
InitialStatuses == [k \in Systems |-> "operational"]

STATUS_TTL == 300      \* seconds
HistoryKeep == 100     \* ltrim('status_history', 0, 99)
PollAttempts == 3      \* `for attempt in range(3)` in make_request

\* The instants at which the model looks at the clock: just before the
\* configured window (21:58), at its start (22:00), inside it (23:30, 00:30)
\* and far from it (06:00).
CheckTimes == {30, 360, 1318, 1320, 1410}

\* Changes recorded before the model stops checking.
MaxChanges == 2

\* A <div class="component"> of the status page: the text of its name span,
\* lower-cased and stripped, and the data-status attribute of its
\* component-status span.  NoSpan: the span is missing.  NoAttr: the span has
\* no data-status attribute.
NoSpan == "<no span>"
NoAttr == "<no data-status>"
Component(n, st) == [name |-> n, status |-> st]

\* The pages the server serves in the model.
PageAllOperational ==
    << Component("platform", "operational"),
       Component("persistent universe", "operational"),
       Component("arena commander", "operational") >>
PagePlatformDegraded ==
    << Component("platform", "degraded"),
       Component("persistent universe", "operational"),
       Component("arena commander", "operational") >>
PagePartial ==
    << Component("spectrum", "operational"),
       Component("platform", NoAttr),
       Component("persistent universe", "major"),
       Component("arena commander", NoSpan) >>
Pages == {PageAllOperational, PagePlatformDegraded, PagePartial}

\* A page whose platform component carries a data-status that is not a key
\* of STATUS_EMOJIS.
PageUnlistedStatus ==
    << Component("platform", "under-investigation"),
       Component("persistent universe", "operational"),
       Component("arena commander", "operational") >>

\* The if/elif chain on the component name.
SystemOf(name) ==
    CASE name = "platform" -> "platform"
      [] name = "persistent universe" -> "persistent-universe"
      [] name = "arena commander" -> "electronic-access"
      [] OTHER -> "none"

\* status.get('data-status', 'unknown')
data_status(c) == IF c.status = NoAttr THEN "unknown" ELSE c.status

\* the change flag raised for every listed system, changed or not
ApplyComponentAlwaysChanged(acc, c) ==
    IF c.name = NoSpan \/ c.status = NoSpan THEN acc
    ELSE LET sys == SystemOf(c.name) IN
         IF sys = "none" THEN acc
         ELSE [statuses |-> [acc.statuses EXCEPT ![sys] = data_status(c)],
               status_changed |-> TRUE]

\* the change flag overwritten by each listed system instead of accumulated
ApplyComponentLastWins(acc, c) ==
    IF c.name = NoSpan \/ c.status = NoSpan THEN acc
    ELSE LET sys == SystemOf(c.name) IN
         IF sys = "none" THEN acc
         ELSE [statuses |-> [acc.statuses EXCEPT ![sys] = data_status(c)],
               status_changed |-> (acc.statuses[sys] # data_status(c))]

\* the snapshot rebuilt from the page: only the system just listed
ApplyComponentOnlyListed(acc, c) ==
    IF c.name = NoSpan \/ c.status = NoSpan THEN acc
    ELSE LET sys == SystemOf(c.name) IN
         IF sys = "none" THEN acc
         ELSE [statuses |-> [k \in {sys} |-> data_status(c)],
               status_changed |-> TRUE]

\* One pass of `for component in soup.find_all('div', class_='component')`.
ApplyComponent(acc, c) ==
    IF c.name = NoSpan \/ c.status = NoSpan THEN acc
    ELSE LET sys == SystemOf(c.name) IN
         IF sys = "none" THEN acc
         ELSE [statuses |-> [acc.statuses EXCEPT ![sys] = data_status(c)],
               status_changed |->
                   (acc.status_changed \/ acc.statuses[sys] # data_status(c))]

RECURSIVE ParseComponents(_, _)
ParseComponents(components, acc) ==
    IF components = <<>> THEN acc
    ELSE ParseComponents(Tail(components), ApplyComponent(acc, Head(components)))

\* What one GET of make_request meets: a status (0: the request raised) and,
\* for a 200, whether response.text() is the page or empty.
PollOutcomes ==
    { [status |-> 200, body |-> "page"], [status |-> 200, body |-> "empty"],
      [status |-> 404, body |-> "empty"], [status |-> 0, body |-> "empty"] }

\* How the GETs of one call go: the outcomes met until the first 200, at most
\* PollAttempts of them.
PollScripts ==
    { sc \in UNION {[1..n -> PollOutcomes] : n \in 1..PollAttempts} :
        /\ \A i \in 1..(Len(sc) - 1) : sc[i].status # 200
        /\ (Len(sc) < PollAttempts => sc[Len(sc)].status = 200) }

\* RSIStatusMonitorCog.make_request: up to three GETs, the first 200 wins.
RECURSIVE make_request(_, _)
make_request(script, a) ==
    IF a >= PollAttempts THEN [content |-> "None", requests |-> a]
    ELSE IF script[a + 1].status = 200
         THEN [content |-> script[a + 1].body, requests |-> a + 1]
         ELSE make_request(script, a + 1)

\* lpush without the ltrim
record_status_change_no_trim(history, statuses, timestamp) ==
    <<[timestamp |-> timestamp, statuses |-> statuses]>> \o history

\* lpush + ltrim(0, 99)
record_status_change(history, statuses, timestamp) ==
    LET pushed == <<[timestamp |-> timestamp, statuses |-> statuses]>> \o history
    IN SubSeq(pushed, 1, IF Len(pushed) < HistoryKeep THEN Len(pushed) ELSE HistoryKeep)

\* check_log: the caller of the latest check_status ("none" before the first),
\* a bit that flips with every call, the page the server had for it, the GETs
\* it issued, whether it parsed a fetched page, whether it found a change, and
\* what it returned (<<>> for None).
NoCall ==
    [caller |-> "none", tick |-> 0, page |-> <<>>, fetched |-> FALSE,
     requests |-> 0, status_changed |-> FALSE, returned |-> <<>>]

LogCall(caller, page, fetched, reqs, changed, ret) ==
    [caller |-> caller, tick |-> 1 - check_log.tick, page |-> page,
     fetched |-> fetched, requests |-> reqs, status_changed |-> changed,
     returned |-> ret]

StatusInit ==
    /\ now \in CheckTimes
    /\ system_statuses = InitialStatuses
    /\ redis_system_status = <<>>
    /\ status_history = <<>>
    /\ check_log = NoCall

StatusIdle ==
    /\ now = 0
    /\ system_statuses = InitialStatuses
    /\ redis_system_status = <<>>
    /\ status_history = <<>>
    /\ check_log = NoCall

\* check_status, fed `page` by the server with the GETs going as in `script`.
check_status(caller, page, script) ==
    IF redis_system_status # <<>>
    THEN \* cached: self.system_statuses = json.loads(cached)
         /\ system_statuses' = redis_system_status[1].value
         /\ UNCHANGED <<redis_system_status, status_history>>
         /\ check_log' = LogCall(caller, page, FALSE, 0, FALSE,
                                 <<redis_system_status[1].value>>)
    ELSE IF check_maintenance_window(now, MAINTENANCE_START, MAINTENANCE_DURATION)
    THEN /\ system_statuses' = [k \in DOMAIN system_statuses |-> "maintenance"]
         /\ UNCHANGED <<redis_system_status, status_history>>
         /\ check_log' = LogCall(caller, page, FALSE, 0, FALSE,
                                 <<[k \in DOMAIN system_statuses |-> "maintenance"]>>)
    ELSE LET got == make_request(script, 0) IN
         IF got.content # "page"
         THEN \* `if not content: return None`
              /\ UNCHANGED <<system_statuses, redis_system_status, status_history>>
              /\ check_log' = LogCall(caller, page, FALSE, got.requests,
                                      FALSE, <<>>)
         ELSE LET parsed == ParseComponents(page,
                               [statuses |-> system_statuses,
                                status_changed |-> FALSE])
              IN /\ system_statuses' = parsed.statuses
                 /\ IF parsed.status_changed
                    THEN /\ redis_system_status' =
                              <<[value |-> parsed.statuses, ttl |-> STATUS_TTL]>>
                         /\ status_history' =
                              record_status_change(status_history, parsed.statuses, now)
                    ELSE UNCHANGED <<redis_system_status, status_history>>
                 /\ check_log' = LogCall(caller, page, TRUE, got.requests,
                                         parsed.status_changed, <<parsed.statuses>>)

\* check_status_task: one tick of the 5-minute loop.
CheckStatusTask(page, script) ==
    /\ Len(status_history) < MaxChanges
    /\ check_status("task", page, script)
    /\ UNCHANGED now
    /\ UNCHANGED <<fetchVars, maintVars, incidentVars, rosterVars, reconVars, taskVars, pollVars, schedVars, callerVars, extractVars, concVars>>

\* /check-status: answers by itself inside the maintenance window, calls
\* check_status outside it.
CheckStatusCommand(page, script) ==
    /\ Len(status_history) < MaxChanges
    /\ ~check_maintenance_window(now, MAINTENANCE_START, MAINTENANCE_DURATION)
    /\ check_status("command", page, script)
    /\ UNCHANGED now
    /\ UNCHANGED <<fetchVars, maintVars, incidentVars, rosterVars, reconVars, taskVars, pollVars, schedVars, callerVars, extractVars, concVars>>

\* /force-check and /refresh-channels (cogs/commands.py) call check_status
\* directly.
ForceCheck(page, script) ==
    /\ Len(status_history) < MaxChanges
    /\ check_status("force", page, script)
    /\ UNCHANGED now
    /\ UNCHANGED <<fetchVars, maintVars, incidentVars, rosterVars, reconVars, taskVars, pollVars, schedVars, callerVars, extractVars, concVars>>

\* Time passes until the next instant the model looks at; redis drops a key
\* whose time to live has run out.
Elapsed(t1, t2) == 60 * ((t2 - t1) % MinutesPerDay)
Expire(entry, seconds) ==
    IF entry = <<>> \/ entry[1].ttl <= seconds THEN <<>>
    ELSE <<[entry[1] EXCEPT !.ttl = @ - seconds]>>

AdvanceClock(t) ==
    /\ t # now
    /\ now' = t
    /\ redis_system_status' = Expire(redis_system_status, Elapsed(now, t))
    /\ redis_latest_incident' = Expire(redis_latest_incident, Elapsed(now, t))
    /\ redis_last_incident_id' = Expire(redis_last_incident_id, Elapsed(now, t))
    /\ UNCHANGED <<system_statuses, status_history, check_log>>
    /\ UNCHANGED <<inc_loaded, incident_table, incident_history,
                   last_incident_guid, inc_pc, inc_cur, announced, insert_count,
                   first_inserted, emitted, inc_log>>
    /\ UNCHANGED <<fetchVars, maintVars, rosterVars, reconVars, taskVars, pollVars, schedVars, callerVars, extractVars, concVars>>

\* The extension is reloaded: cog_unload cancels the task and
\* after_status_check writes the statuses held in memory to the cache; then
\* __init__ of the fresh cog.
CogReload ==
    /\ redis_system_status' = <<[value |-> system_statuses, ttl |-> STATUS_TTL]>>
    /\ system_statuses' = InitialStatuses
    /\ check_log' = NoCall
    /\ UNCHANGED <<now, status_history>>
    /\ UNCHANGED <<fetchVars, maintVars, incidentVars, rosterVars, reconVars, taskVars, pollVars, schedVars, callerVars, extractVars, concVars>>

(***************************************************************************)
(* A long run of the status task against a server whose platform status    *)
(* flips between two polls, so that every tick records a change.           *)
(***************************************************************************)
PollMinutes == 5            \* @tasks.loop(minutes=5)
HistoryStart == 360         \* 06:00, far from the maintenance window
MaxHistoryTicks == 103

FlappingPage(t) ==
    IF (t \div PollMinutes) % 2 = 0 THEN PagePlatformDegraded ELSE PageAllOperational
PollSucceeds == <<[status |-> 200, body |-> "page"]>>
TickedAt(t) == check_log.caller # "none" /\ check_log.page = FlappingPage(t)

HistoryInit ==
    /\ now = HistoryStart
    /\ system_statuses = InitialStatuses
    /\ redis_system_status = <<>>
    /\ status_history = <<>>
    /\ check_log = NoCall

\* the tick of check_status_task due at `now`
FlappingTick ==
    /\ ~TickedAt(now)
    /\ check_status("task", FlappingPage(now), PollSucceeds)
    /\ UNCHANGED now
    /\ UNCHANGED <<fetchVars, maintVars, incidentVars, rosterVars, reconVars, taskVars, pollVars, schedVars, callerVars, extractVars, concVars>>

\* the loop sleeps until its next tick
FlappingSleep ==
    /\ TickedAt(now)
    /\ now < HistoryStart + PollMinutes * MaxHistoryTicks
    /\ AdvanceClock(now + PollMinutes)

(***************************************************************************)
(* RSIIncidentMonitorCog                                                   *)
(***************************************************************************)
Guids == {"X1", "X2"}
Callers == {"task", "force"}

\* Keys of STATUS_EMOJIS
STATUS_EMOJIS == {"operational", "degraded", "partial", "major", "maintenance",
                  "unknown"}

\* INSERTs and new-incident events before the model stops polling.
MaxInserts == 2
MaxAnnounced == 2

\* Entries of the feed: guid, title and the terms of its tags.
Entry(g, title, tags) == [guid |-> g, title |-> title, tags |-> tags]
EntryMajor == Entry("X1", "Major PU outage", <<"major-outage", "Persistent Universe">>)
EntryResolved == Entry("X1", "PU outage resolved", <<"Persistent Universe", "operational">>)
EntryDegraded == Entry("X2", "Platform degraded", <<"degraded", "Platform">>)

\* The feeds the server serves in the model, newest entry first.
Feeds == { <<>>, <<EntryMajor>>, <<EntryResolved>>, <<EntryDegraded, EntryMajor>> }

\* "major" in title.lower()
TitleHasMajor(title) == title \in {"Major PU outage"}

\* The dict get_latest_incident builds from feed.entries[0] (description and
\* link are carried along unchanged and left out).
IncidentOf(entry, t) ==
    LET statusTags == SelectSeq(entry.tags, LAMBDA term : term \in STATUS_EMOJIS)
    IN [guid |-> entry.guid,
        title |-> entry.title,
        timestamp |-> t,
        components |-> SelectSeq(entry.tags, LAMBDA term : term \notin STATUS_EMOJIS),
        status |-> IF statusTags = <<>> THEN "unknown" ELSE Head(statusTags)]

\* RSIIncidentMonitorCog.check_maintenance_window and make_request are copies
\* of the status cog's.
incident_check_maintenance_window(t) ==
    check_maintenance_window(t, MAINTENANCE_START, MAINTENANCE_DURATION)
feed_make_request(script) == make_request(script, 0)

\* How the GETs of the feed go in the model: a 200 at once, a 200 on the last
\* attempt, no 200 at all.
FeedScripts ==
    { sc \in PollScripts :
        /\ \A i \in 1..Len(sc) : sc[i].status = 200 => sc[i].body = "page"
        /\ Len(sc) \in {1, PollAttempts}
        /\ \A i \in 1..(Len(sc) - 1) : sc[i].status = 404 }

\* The instants the incident poller's clock takes: 21:58 and 22:00, two
\* minutes before the maintenance window and its first minute.
IncidentTimes == {1318, 1320}

\* The table incident_history that exists when the cog runs.  bot.py calls
\* init_db before the bot is built, and on a database without the table its
\* CREATE TABLE IF NOT EXISTS makes one with columns id, guid UNIQUE, title,
\* description, status, components TEXT[], timestamp, raw_data: no link
\* column.  The cog's own CREATE TABLE IF NOT EXISTS (guid PRIMARY KEY, ...,
\* link) takes effect only where the table did not exist by then, or the
\* table was made earlier by init_rsi_schema / the models with that layout.
IncidentTables == {"init_db", "setup_database"}

\* INSERT INTO incident_history (guid, title, description, status, components,
\* link, timestamp) ... ON CONFLICT (guid) DO NOTHING, against the table that
\* exists.
ExecuteInsert(rows, incident, table) ==
    IF table = "init_db"
    THEN [rows |-> rows, error |-> "undefined column link"]
    ELSE IF \E i \in 1..Len(rows) : rows[i].guid = incident.guid
         THEN [rows |-> rows, error |-> "none"]
         ELSE [rows |-> Append(rows, incident), error |-> "none"]

\* inc_log: the guid of the newest entry the server had for the latest
\* finished tick (<<>>: empty feed), the guid of the incident
\* get_latest_incident returned to it (<<>>: None), last_incident_guid before
\* and after the tick, the events the tick raised, and the clock reading at
\* which the tick began.
NoTick == [served |-> <<>>, got |-> <<>>, before |-> <<>>, after |-> <<>>,
           events |-> 0, at |-> 0]
NewestGuid(feed) == IF feed = <<>> THEN <<>> ELSE <<Head(feed).guid>>

IncidentInit ==
    /\ inc_loaded = TRUE
    /\ incident_table \in IncidentTables
    /\ incident_history = <<>>
    /\ last_incident_guid = <<>>
    /\ redis_latest_incident = <<>>
    /\ redis_last_incident_id = <<>>
    /\ inc_pc = [c \in Callers |-> "idle"]
    /\ inc_cur = [c \in Callers |-> <<>>]
    /\ announced = <<>>
    /\ insert_count = [g \in Guids |-> 0]
    /\ first_inserted = [g \in Guids |-> <<>>]
    /\ emitted = <<>>
    /\ inc_log = NoTick

IncidentIdle ==
    /\ inc_loaded = FALSE
    /\ incident_table = "setup_database"
    /\ incident_history = <<>>
    /\ last_incident_guid = <<>>
    /\ redis_latest_incident = <<>>
    /\ redis_last_incident_id = <<>>
    /\ inc_pc = [c \in Callers |-> "idle"]
    /\ inc_cur = [c \in Callers |-> <<>>]
    /\ announced = <<>>
    /\ insert_count = [g \in Guids |-> 0]
    /\ first_inserted = [g \in Guids |-> <<>>]
    /\ emitted = <<>>
    /\ inc_log = NoTick

\* How far get_latest_incident gets before it touches the database:
\* "none" (returns None), "cached" (returns the cached dict) or "fetched"
\* (built the incident, about to cache and store it).
\* the window looked at after the cache instead of before it
get_latest_incident_cache_first(force, feed, script) ==
    IF ~force /\ redis_latest_incident # <<>> THEN "cached"
    ELSE IF incident_check_maintenance_window(now) THEN "none"
    ELSE IF feed_make_request(script).content # "page" THEN "none"
    ELSE IF feed = <<>> THEN "none"
    ELSE "fetched"

get_latest_incident(force, feed, script) ==
    IF incident_check_maintenance_window(now) THEN "none"
    ELSE IF ~force /\ redis_latest_incident # <<>> THEN "cached"
    ELSE IF feed_make_request(script).content # "page" THEN "none"
    ELSE IF feed = <<>> THEN "none"
    ELSE "fetched"

\* The GETs one call of get_latest_incident issues: none when it returns at
\* the window check or with the cached incident, those of make_request
\* otherwise.
feed_requests(force, script) ==
    IF incident_check_maintenance_window(now) THEN 0
    ELSE IF ~force /\ redis_latest_incident # <<>> THEN 0
    ELSE feed_make_request(script).requests

\* Callers that hold an incident they are about to INSERT.
PendingInserts == Cardinality({c \in Callers : inc_pc[c] = "store"})

\* get_latest_incident up to `await self.store_incident_history(incident)`.
FetchIncident(c, feed) ==
    LET incident == IncidentOf(Head(feed), now) IN
    /\ insert_count["X1"] + insert_count["X2"] + PendingInserts < MaxInserts
    /\ redis_latest_incident' = <<[value |-> incident, ttl |-> STATUS_TTL]>>
    /\ inc_cur' = [inc_cur EXCEPT ![c] = <<incident>>]
    /\ inc_pc' = [inc_pc EXCEPT ![c] = "store"]

\* store_incident_history: the INSERT, any exception logged and dropped.
store_incident_history(c) ==
    LET incident == inc_cur[c][1]
        done == ExecuteInsert(incident_history, incident, incident_table)
    IN /\ incident_history' = done.rows
       /\ insert_count' = [insert_count EXCEPT ![incident.guid] = @ + 1]
       /\ first_inserted' =
            IF first_inserted[incident.guid] = <<>>
            THEN [first_inserted EXCEPT ![incident.guid] = <<incident>>]
            ELSE first_inserted
       /\ inc_pc' = [inc_pc EXCEPT ![c] = "idle"]
       /\ inc_cur' = [inc_cur EXCEPT ![c] = <<>>]

\* The new-incident event: the record and the urgency check_incidents_task
\* derives for it (@everyone and pin).
NewIncident(incident) ==
    [guid |-> incident.guid, title |-> incident.title, status |-> incident.status,
     urgency |-> IF TitleHasMajor(incident.title) THEN "major" ELSE "normal"]

\* every incident returned is announced, whatever the last guid
AnnounceNoCompare(incident, notify) ==
    /\ last_incident_guid' = <<incident.guid>>
    /\ emitted' = Append(emitted, NewIncident(incident))
    /\ UNCHANGED <<announced, redis_last_incident_id>>

\* check_incidents_task from the guid comparison on.  notify: "sent",
\* "no_channel" (get_channel gave None), "send_raises", "pin_raises".
Announce(incident, notify) ==
    LET major == TitleHasMajor(incident.title)
        message(pinned) == [guid |-> incident.guid,
                            content |-> IF major THEN "@everyone" ELSE "None",
                            pinned |-> pinned]
    IN IF last_incident_guid = <<incident.guid>>
       THEN UNCHANGED <<last_incident_guid, announced, redis_last_incident_id,
                        emitted>>
       ELSE /\ last_incident_guid' = <<incident.guid>>
            /\ emitted' = Append(emitted, NewIncident(incident))
            /\ IF notify \in {"no_channel", "send_raises"}
               THEN UNCHANGED <<announced, redis_last_incident_id>>
               ELSE IF notify = "pin_raises" /\ major
               THEN /\ announced' = Append(announced, message(FALSE))
                    /\ UNCHANGED redis_last_incident_id
               ELSE /\ announced' = Append(announced, message(major))
                    /\ redis_last_incident_id' =
                         <<[value |-> incident.guid, ttl |-> STATUS_TTL]>>

Notifications == {"sent", "no_channel", "send_raises", "pin_raises"}

\* The tick's entry in inc_log, written when the tick ends.
TickLog(served, got, began) ==
    inc_log' = [served |-> served, got |-> got, before |-> last_incident_guid,
                after |-> last_incident_guid',
                events |-> Len(emitted') - Len(emitted), at |-> began]

\* check_incidents_task, from the tick to the INSERT (or to its end when
\* get_latest_incident returns None or the cached incident).
IncidentTaskTick(feed, script, notify) ==
    /\ inc_loaded
    /\ inc_pc["task"] = "idle"
    /\ Len(emitted) < MaxAnnounced
    /\ LET kind == get_latest_incident(FALSE, feed, script) IN
         CASE kind = "fetched" ->
                /\ FetchIncident("task", feed)
                /\ UNCHANGED <<last_incident_guid, announced, redis_last_incident_id,
                               emitted, inc_log>>
           [] kind = "cached" ->
                /\ Announce(redis_latest_incident[1].value, notify)
                /\ TickLog(NewestGuid(feed), <<redis_latest_incident[1].value.guid>>, now)
                /\ UNCHANGED <<redis_latest_incident, inc_pc, inc_cur>>
           [] OTHER ->
                /\ UNCHANGED <<last_incident_guid, announced, redis_last_incident_id,
                               emitted, redis_latest_incident, inc_pc, inc_cur>>
                /\ TickLog(NewestGuid(feed), <<>>, now)
    /\ UNCHANGED <<now, inc_loaded, incident_table, incident_history, insert_count,
                   first_inserted>>
    /\ UNCHANGED <<system_statuses, redis_system_status, status_history, check_log>>
    /\ UNCHANGED <<fetchVars, maintVars, rosterVars, reconVars, taskVars, pollVars, schedVars, callerVars, extractVars, concVars>>

\* check_incidents_task, from the INSERT to its end.
IncidentTaskStore(notify) ==
    /\ inc_pc["task"] = "store"
    /\ store_incident_history("task")
    /\ Announce(inc_cur["task"][1], notify)
    /\ TickLog(<<inc_cur["task"][1].guid>>, <<inc_cur["task"][1].guid>>,
               inc_cur["task"][1].timestamp)
    /\ UNCHANGED <<now, inc_loaded, incident_table, redis_latest_incident>>
    /\ UNCHANGED <<system_statuses, redis_system_status, status_history, check_log>>
    /\ UNCHANGED <<fetchVars, maintVars, rosterVars, reconVars, taskVars, pollVars, schedVars, callerVars, extractVars, concVars>>

\* /force-check: get_latest_incident(force=True), up to the INSERT.
ForceCheckIncident(feed, script) ==
    /\ inc_loaded
    /\ inc_pc["force"] = "idle"
    /\ get_latest_incident(TRUE, feed, script) = "fetched"
    /\ FetchIncident("force", feed)
    /\ UNCHANGED <<now, inc_loaded, incident_table, incident_history,
                   last_incident_guid, redis_last_incident_id, announced,
                   insert_count, first_inserted, emitted, inc_log>>
    /\ UNCHANGED <<system_statuses, redis_system_status, status_history, check_log>>
    /\ UNCHANGED <<fetchVars, maintVars, rosterVars, reconVars, taskVars, pollVars, schedVars, callerVars, extractVars, concVars>>

\* /force-check: the INSERT of its get_latest_incident.
ForceCheckStore ==
    /\ inc_pc["force"] = "store"
    /\ store_incident_history("force")
    /\ UNCHANGED <<now, inc_loaded, incident_table, last_incident_guid,
                   redis_latest_incident, redis_last_incident_id, announced,
                   emitted, inc_log>>
    /\ UNCHANGED <<system_statuses, redis_system_status, status_history, check_log>>
    /\ UNCHANGED <<fetchVars, maintVars, rosterVars, reconVars, taskVars, pollVars, schedVars, callerVars, extractVars, concVars>>

\* cog_unload between two ticks: after_incidents_check saves the last guid.
IncidentCogUnload ==
    /\ inc_loaded
    /\ \A c \in Callers : inc_pc[c] = "idle"
    /\ inc_loaded' = FALSE
    /\ redis_last_incident_id' =
         IF last_incident_guid # <<>>
         THEN <<[value |-> last_incident_guid[1], ttl |-> STATUS_TTL]>>
         ELSE redis_last_incident_id
    /\ UNCHANGED <<now, incident_table, incident_history, last_incident_guid,
                   redis_latest_incident, inc_pc, inc_cur, announced, insert_count,
                   first_inserted, emitted, inc_log>>
    /\ UNCHANGED <<system_statuses, redis_system_status, status_history, check_log>>
    /\ UNCHANGED <<fetchVars, maintVars, rosterVars, reconVars, taskVars, pollVars, schedVars, callerVars, extractVars, concVars>>

\* The cog is loaded again: __init__, then before_incidents_check restores
\* the last guid from redis.
IncidentCogLoad ==
    /\ ~inc_loaded
    /\ inc_loaded' = TRUE
    /\ last_incident_guid' =
         IF redis_last_incident_id = <<>> THEN <<>>
         ELSE <<redis_last_incident_id[1].value>>
    /\ UNCHANGED <<now, incident_table, incident_history, redis_latest_incident,
                   redis_last_incident_id, inc_pc, inc_cur, announced,
                   insert_count, first_inserted, emitted, inc_log>>
    /\ UNCHANGED <<system_statuses, redis_system_status, status_history, check_log>>
    /\ UNCHANGED <<fetchVars, maintVars, rosterVars, reconVars, taskVars, pollVars, schedVars, callerVars, extractVars, concVars>>

(***************************************************************************)
(* RSIIntegrationCog.get_org_members and RSIScraper.get_organization_members *)
(***************************************************************************)
MEMBERS_PER_PAGE == 32

\* Pages a crawl asks for before the model stops following it.
MaxCrawlPages == 3

\* Handles: "m1", "m2", ...; member n of the organization is on page
\* (n - 1) \div 32 + 1.  "M1" is m1's handle as the server spells it on
\* another listing.
Handle(n) == "m" \o ToString(n)
Member(h) == [handle |-> h]
\* handles compared as they are spelt
LowerKeepsCase(h) == h

Lower(h) ==
    CASE h = "M1" -> "m1"
      [] h = "Alpha" -> "alpha"
      [] h = "Bravo" -> "bravo"
      [] OTHER -> h

\* The member records extracted from the server's answer to a request for
\* page p: a full page, a short page, page 1 once more, a short page that
\* lists one member twice, nothing (the answer has no member-item: there is
\* no such page), or a failure (_make_request gave None, or the JSON is not
\* success = 1 with html).
FullPage(p) == [i \in 1..MEMBERS_PER_PAGE |-> Member(Handle(MEMBERS_PER_PAGE * (p - 1) + i))]
ShortPage(p) == SubSeq(FullPage(p), 1, 2)
TwicePage == <<Member("m1"), Member("M1")>>
ServerAnswers == {"full", "short", "first_again", "twice", "nothing", "failed"}
Extracted(answer, p) ==
    CASE answer = "full" -> FullPage(p)
      [] answer = "short" -> ShortPage(p)
      [] answer = "first_again" -> FullPage(1)
      [] answer = "twice" -> TwicePage
      [] OTHER -> <<>>

\* What redis does during one call: works, raises on the get, raises on the
\* set of a page, raises on the set of the roster-level key.
RedisFaults == {"none", "get", "set", "roster_set"}

\* `if not result: return []` comes before the redis.set
CachesPage(got) == got # <<>>

\* RSIScraper.get_organization_members(sid, p): the cached page if there is
\* one, else the extracted records, cached when there are any; [] when
\* anything raises.  source: "cache", the server's answer, or "none" when no
\* request was made.
get_organization_members(answer, p, fault) ==
    IF fault = "get"
    THEN [members |-> <<>>, cache |-> redis_org_page, source |-> "none"]
    ELSE IF redis_org_page[p] # <<>>
    THEN [members |-> redis_org_page[p][1], cache |-> redis_org_page,
          source |-> "cache"]
    ELSE LET got == Extracted(answer, p)
         IN IF ~CachesPage(got)
            THEN [members |-> got, cache |-> redis_org_page, source |-> answer]
            ELSE IF fault = "set"
            THEN [members |-> <<>>, cache |-> redis_org_page, source |-> answer]
            ELSE [members |-> got,
                  cache |-> [redis_org_page EXCEPT ![p] = <<got>>],
                  source |-> answer]

\* the crawl goes on after a short page
PageIsLastOnlyEmpty(page_members) ==
    page_members = <<>>

\* `if not page_members: break` and
\* `if len(page_members) < MEMBERS_PER_PAGE: break`
PageIsLast(page_members) ==
    page_members = <<>> \/ Len(page_members) < MEMBERS_PER_PAGE

\* the roster-level key is never written
CachesRosterNever(members) == FALSE

\* `if members:` before the redis.set of the roster-level key
CachesRoster(members) == members # <<>>

RosterInit ==
    /\ crawl_pc = "idle"
    /\ crawl_page = 1
    /\ crawl_members = <<>>
    /\ crawl_result = <<>>
    /\ page_calls = <<>>
    /\ redis_org_members = <<>>
    /\ redis_org_page = [p \in 1..MaxCrawlPages |-> <<>>]
    /\ empty_pages = {}

RosterIdle == RosterInit

CallerInit == crawl_caller = "none"
CallerIdle == CallerInit

\* get_org_members up to the loop: the roster-level cache, else page 1; []
\* when redis.get raises.
get_org_members_call(fault) ==
    /\ crawl_pc \in {"idle", "done"}
    /\ page_calls' = <<>>
    /\ IF fault = "get"
       THEN /\ crawl_result' = <<>>
            /\ crawl_pc' = "done"
            /\ UNCHANGED <<crawl_page, crawl_members>>
       ELSE IF redis_org_members # <<>>
       THEN /\ crawl_result' = redis_org_members[1]
            /\ crawl_pc' = "done"
            /\ UNCHANGED <<crawl_page, crawl_members>>
       ELSE /\ crawl_pc' = "loop"
            /\ crawl_page' = 1
            /\ crawl_members' = <<>>
            /\ UNCHANGED crawl_result
    /\ crawl_caller' = "get_org_members"
    /\ UNCHANGED <<redis_org_members, redis_org_page, empty_pages>>
    /\ UNCHANGED <<fetchVars, maintVars, statusVars, incidentVars, reconVars, taskVars, pollVars, schedVars, extractVars, concVars>>

GetOrgMembersCall == get_org_members_call("none")
GetOrgMembersCallRedisDown == get_org_members_call("get")

\* One turn of `while True`, and on the last page the rest of the call:
\* the roster-level cache is written when there are members.
crawl_page_turn(answer, fault) ==
    /\ crawl_pc = "loop"
    /\ crawl_page <= MaxCrawlPages
    /\ LET got == get_organization_members(answer, crawl_page, fault)
           members == crawl_members \o got.members
       IN /\ redis_org_page' = got.cache
          /\ page_calls' = Append(page_calls,
                                  [page |-> crawl_page, members |-> got.members,
                                   source |-> got.source, fault |-> fault,
                                   known_empty |-> crawl_page \in empty_pages])
          /\ empty_pages' =
               IF got.source \in {"cache", "none"} THEN empty_pages
               ELSE IF got.source = "nothing" THEN empty_pages \cup {crawl_page}
               ELSE empty_pages \ {crawl_page}
          /\ crawl_members' = members
          /\ IF PageIsLast(got.members)
             THEN /\ crawl_pc' = "done"
                  /\ IF CachesRoster(members) /\ fault = "roster_set"
                     THEN crawl_result' = <<>> /\ UNCHANGED redis_org_members
                     ELSE /\ crawl_result' = members
                          /\ redis_org_members' =
                               IF CachesRoster(members) THEN <<members>>
                               ELSE redis_org_members
                  /\ UNCHANGED crawl_page
             ELSE /\ crawl_page' = crawl_page + 1
                  /\ UNCHANGED <<crawl_pc, crawl_result, redis_org_members>>
    /\ UNCHANGED <<fetchVars, maintVars, statusVars, incidentVars, reconVars, taskVars, pollVars, schedVars, callerVars, extractVars, concVars>>

CrawlPage(answer) == crawl_page_turn(answer, "none")
CrawlPageRedisFault(answer, fault) ==
    fault # "none" /\ crawl_page_turn(answer, fault)

\* A turn of `while True` after page MaxCrawlPages that does not end the
\* crawl.  Neither exit of the loop looks at the page number, so from there on
\* the model keeps of `page` only whether it is the first page after
\* MaxCrawlPages or a later one, and no longer collects the records.
CrawlPageBeyond(answer) ==
    /\ crawl_pc = "loop"
    /\ crawl_page > MaxCrawlPages
    /\ ~PageIsLast(Extracted(answer, crawl_page))
    /\ crawl_page' = IF crawl_page = MaxCrawlPages + 1
                      THEN MaxCrawlPages + 2 ELSE MaxCrawlPages + 1
    /\ UNCHANGED <<crawl_pc, crawl_members, crawl_result, page_calls,
                   redis_org_members, redis_org_page, empty_pages>>
    /\ UNCHANGED <<fetchVars, maintVars, statusVars, incidentVars, reconVars, taskVars, pollVars, schedVars, callerVars, extractVars, concVars>>

\* /draxon-refresh: the roster-level key is deleted (with org_info:<SID> and
\* the rsi_user:* keys, which the model does not hold), get_org_info answers,
\* and get_org_members, finding no roster-level key, starts its loop.
RefreshOrgData ==
    /\ crawl_pc \in {"idle", "done"}
    /\ redis_org_members' = <<>>
    /\ crawl_caller' = "refresh_org_data"
    /\ page_calls' = <<>>
    /\ crawl_pc' = "loop"
    /\ crawl_page' = 1
    /\ crawl_members' = <<>>
    /\ UNCHANGED <<crawl_result, redis_org_page, empty_pages>>
    /\ UNCHANGED <<fetchVars, maintVars, statusVars, incidentVars, reconVars, taskVars, pollVars, schedVars, extractVars, concVars>>

\* The TTL of the roster-level key (ORG_DATA_TTL) runs out.
RosterKeyExpires ==
    /\ redis_org_members # <<>>
    /\ redis_org_members' = <<>>
    /\ UNCHANGED <<crawl_pc, crawl_page, crawl_members, crawl_result, page_calls,
                   redis_org_page, empty_pages>>
    /\ UNCHANGED <<fetchVars, maintVars, statusVars, incidentVars, reconVars, taskVars, pollVars, schedVars, callerVars, extractVars, concVars>>

\* MEMBER_DATA_TTL has passed since page p was last fetched: its key, if it
\* has one, runs out.
PageKeyExpires(p) ==
    /\ redis_org_page[p] # <<>> \/ p \in empty_pages
    /\ redis_org_page' = [redis_org_page EXCEPT ![p] = <<>>]
    /\ empty_pages' = empty_pages \ {p}
    /\ UNCHANGED <<crawl_pc, crawl_page, crawl_members, crawl_result, page_calls,
                   redis_org_members>>
    /\ UNCHANGED <<fetchVars, maintVars, statusVars, incidentVars, reconVars, taskVars, pollVars, schedVars, callerVars, extractVars, concVars>>

(***************************************************************************)
(* MembershipMonitorCog.check_member_roles                                 *)
(***************************************************************************)
ROLE_HIERARCHY == <<"Screening", "Applicant", "Employee", "Team Leader",
                    "Executive", "Chairman", "Magnate">>
LEADERSHIP_MAX_RANK == "Team Leader"
DEFAULT_DEMOTION_RANK == "Employee"
UNAFFILIATED_RANK == "Screening"

Ranks == { ROLE_HIERARCHY[i] : i \in 1..Len(ROLE_HIERARCHY) }
IndexOf(seq, x) == CHOOSE i \in 1..Len(seq) : seq[i] = x
Reversed(seq) == [i \in 1..Len(seq) |-> seq[Len(seq) + 1 - i]]

\* Rank roles one member holds at the start, and runs of check_member_roles
\* the model follows.
MaxRolesHeld == 2
MaxRuns == 2

\* guild.members, in the order the loop meets them; the handles their
\* rsi_members rows hold; the handles as the organization's listing spells
\* them.
GuildMembers == <<"A", "B">>
Members == {"A", "B"}
StoredHandle == [A |-> "Alpha", B |-> "bravo"]
ListedHandles == {"alpha", "Bravo"}
OrgStatuses == {"Main", "Affiliate"}

\* Orders in which the guild's role list has the rank roles, lowest position
\* first: that of ROLE_HIERARCHY, and the reverse.
GuildRoleOrders == {ROLE_HIERARCHY, Reversed(ROLE_HIERARCHY)}

RoleSets == { rs \in SUBSET Ranks : Cardinality(rs) <= MaxRolesHeld }

\* next((r for r in current_roles if r in ROLE_HIERARCHY), None), with
\* member.roles in the order of the guild's role positions.
CurrentRank(roles) ==
    LET held == { i \in 1..Len(guild_roles) : guild_roles[i] \in roles }
    IN IF held = {} THEN "None"
       ELSE guild_roles[CHOOSE i \in held : \A j \in held : i <= j]

\* a member is demoted whatever its rank is
NeedsUnaffiliatedAlways(rank) == TRUE

\* current_rank != ROLE_SETTINGS['UNAFFILIATED_RANK']
NeedsUnaffiliated(rank) == rank # UNAFFILIATED_RANK

\* the rank just above the maximum is still allowed
ExceedsAffiliateMaxByTwo(rank) ==
    /\ rank # "None"
    /\ IndexOf(ROLE_HIERARCHY, rank) > IndexOf(ROLE_HIERARCHY, LEADERSHIP_MAX_RANK) + 1

\* current_rank and current_index > max_allowed_index
ExceedsAffiliateMax(rank) ==
    /\ rank # "None"
    /\ IndexOf(ROLE_HIERARCHY, rank) > IndexOf(ROLE_HIERARCHY, LEADERSHIP_MAX_RANK)

\* main members are checked against the affiliate maximum too
IsAffiliateAnyStatus(org_status) == TRUE

\* member_data['org_status'] == 'Affiliate'
IsAffiliate(org_status) == org_status = "Affiliate"

\* _handle_demotion: the old rank role removed, the new one added, one entry
\* for demotion_log and role_history.
handle_demotion(m, roles, old_rank, new_rank, reason) ==
    [roles |-> (roles \ {old_rank}) \cup {new_rank},
     log |-> <<[member |-> m, old_rank |-> old_rank, new_rank |-> new_rank,
                reason |-> reason]>>]

\* The body of `for member in guild.members` for member m.
CheckMember(m, org_handles) ==
    LET roles == member_roles[m]
        current_rank == CurrentRank(roles)
        unchanged == [roles |-> roles, log |-> <<>>]
    IN IF rsi_members[m] = <<>> THEN unchanged
       ELSE IF Lower(rsi_members[m][1].handle) \notin org_handles
       THEN IF NeedsUnaffiliated(current_rank)
            THEN handle_demotion(m, roles, current_rank, UNAFFILIATED_RANK, "not_in_org")
            ELSE unchanged
       ELSE IF IsAffiliate(rsi_members[m][1].org_status)
               /\ ExceedsAffiliateMax(current_rank)
            THEN handle_demotion(m, roles, current_rank, DEFAULT_DEMOTION_RANK, "affiliate")
            ELSE unchanged

RECURSIVE CheckMembers(_, _)
CheckMembers(members, org_handles) ==
    IF members = <<>> THEN <<>>
    ELSE CheckMember(Head(members), org_handles).log
           \o CheckMembers(Tail(members), org_handles)

ReconInit ==
    /\ guild_roles \in GuildRoleOrders
    /\ member_roles \in [Members -> RoleSets]
    /\ \E linked \in SUBSET Members, status \in [Members -> OrgStatuses] :
         rsi_members = [m \in Members |->
                          IF m \in linked
                          THEN <<[handle |-> StoredHandle[m], org_status |-> status[m]]>>
                          ELSE <<>>]
    /\ org_roster \in SUBSET ListedHandles
    /\ redis_guild_handles = <<>>
    /\ role_history = <<>>
    /\ roles_before = member_roles
    /\ demotion_log = <<>>
    /\ recon_runs = 0
    /\ recon_fetch = "none"

ReconIdle ==
    /\ guild_roles = ROLE_HIERARCHY
    /\ member_roles = [m \in Members |-> {}]
    /\ rsi_members = [m \in Members |-> <<>>]
    /\ org_roster = {}
    /\ redis_guild_handles = <<>>
    /\ role_history = <<>>
    /\ roles_before = member_roles
    /\ demotion_log = <<>>
    /\ recon_runs = 0
    /\ recon_fetch = "none"

\* What get_org_members hands to check_member_roles: the roster, or [] when
\* the crawl got nothing (the first page's request failed or its HTML could
\* not be used); never None.
get_org_members(fetch_ok) == IF fetch_ok THEN org_roster ELSE {}

\* check_member_roles(guild): the handle set from the cache or from
\* get_org_members, then every member in turn.
check_member_roles(fetch_ok) ==
    /\ recon_runs < MaxRuns
    /\ LET cached == redis_guild_handles # <<>> /\ redis_guild_handles[1] # {}
           org_handles == IF cached THEN redis_guild_handles[1]
                          ELSE { Lower(h) : h \in get_org_members(fetch_ok) }
           log == CheckMembers(GuildMembers, org_handles)
       IN /\ redis_guild_handles' =
               IF cached THEN redis_guild_handles ELSE <<org_handles>>
          /\ member_roles' = [m \in Members |-> CheckMember(m, org_handles).roles]
          /\ demotion_log' = log
          /\ role_history' = role_history \o log
          /\ recon_fetch' = IF cached THEN "cached"
                             ELSE IF fetch_ok THEN "fetched" ELSE "failed"
    /\ roles_before' = member_roles
    /\ recon_runs' = recon_runs + 1
    /\ UNCHANGED <<guild_roles, rsi_members, org_roster>>
    /\ UNCHANGED <<fetchVars, maintVars, statusVars, incidentVars, rosterVars, taskVars, pollVars, schedVars, callerVars, extractVars, concVars>>

\* a run whose roster, if it has to be fetched, is fetched
CheckMemberRoles == check_member_roles(TRUE)

\* a run that has to fetch the roster while the organization's pages cannot
\* be had
CheckMemberRolesFetchFails ==
    /\ ~(redis_guild_handles # <<>> /\ redis_guild_handles[1] # {})
    /\ check_member_roles(FALSE)

\* The TTL of 'org_members:<guild.id>' (ORG_DATA_TTL) runs out.
GuildHandlesExpire ==
    /\ redis_guild_handles # <<>>
    /\ redis_guild_handles' = <<>>
    /\ UNCHANGED <<guild_roles, member_roles, rsi_members, org_roster, role_history,
                   roles_before, demotion_log, recon_runs, recon_fetch>>
    /\ UNCHANGED <<fetchVars, maintVars, statusVars, incidentVars, rosterVars, taskVars, pollVars, schedVars, callerVars, extractVars, concVars>>

(***************************************************************************)
(* Specifications                                                          *)
(***************************************************************************)
(***************************************************************************)
(* The task boundary of the two pollers (rsi_status_monitor.py 257-273,    *)
(* rsi_incidents_monitor.py 286-328).  A tick raises at most one           *)
(* exception, at one of the points below; the exception travels outwards   *)
(* through the functions that enclose the point until one of them          *)
(* swallows it.  An exception that leaves the task function stops the      *)
(* tasks.loop for good.                                                     *)
(***************************************************************************)
Tasks == {"check_status_task", "check_incidents_task"}
MaxTicks == 3

\* the functions enclosing each point where a tick can raise, innermost first
RaisePoints ==
    [check_status_task |->
        [fetch        |-> <<"make_request", "check_status", "check_status_task">>,
         extraction   |-> <<"check_status", "check_status_task">>,
         cache        |-> <<"check_status", "check_status_task">>,
         history      |-> <<"record_status_change", "check_status",
                            "check_status_task">>,
         channel_edit |-> <<"update_status_channels", "check_status_task">>,
         last_check   |-> <<"check_status_task">>],
     check_incidents_task |->
        [fetch        |-> <<"make_request", "get_latest_incident",
                            "check_incidents_task">>,
         extraction   |-> <<"get_latest_incident", "check_incidents_task">>,
         cache        |-> <<"get_latest_incident", "check_incidents_task">>,
         database     |-> <<"store_incident_history", "get_latest_incident",
                            "check_incidents_task">>,
         embed        |-> <<"create_incident_embed", "check_incidents_task">>,
         send         |-> <<"check_incidents_task">>,
         pin          |-> <<"check_incidents_task">>,
         last_id_set  |-> <<"check_incidents_task">>]]

\* what the except clause of a function does with an exception
HandlerNoBoundary(fn) ==
    IF fn \in {"create_incident_embed"} \cup Tasks THEN "reraise" ELSE "swallow"
Handler(fn) ==
    IF fn = "create_incident_embed" THEN "reraise" ELSE "swallow"

\* the function that swallows an exception raised inside chain, "" if none
CaughtBy(chain) ==
    IF \E i \in 1..Len(chain) : Handler(chain[i]) = "swallow"
    THEN chain[CHOOSE i \in 1..Len(chain) :
                 /\ Handler(chain[i]) = "swallow"
                 /\ \A j \in 1..(i - 1) : Handler(chain[j]) = "reraise"]
    ELSE ""

TaskInit ==
    /\ task_running = [t \in Tasks |-> TRUE]
    /\ tick_log = <<>>
TaskIdle ==
    /\ task_running = [t \in Tasks |-> FALSE]
    /\ tick_log = <<>>

\* one tick in which nothing raises
TaskTickClean(t) ==
    /\ task_running[t]
    /\ Len(tick_log) < MaxTicks
    /\ tick_log' = Append(tick_log, [task |-> t, point |-> "none", caught_by |-> ""])
    /\ UNCHANGED task_running
    /\ UNCHANGED <<fetchVars, maintVars, statusVars, incidentVars, rosterVars, reconVars, pollVars, schedVars, callerVars, extractVars, concVars>>

\* one tick in which the call at point raises
TaskTickRaises(t, point) ==
    /\ task_running[t]
    /\ Len(tick_log) < MaxTicks
    /\ LET by == CaughtBy(RaisePoints[t][point])
       IN  /\ tick_log' = Append(tick_log,
                                 [task |-> t, point |-> point, caught_by |-> by])
           /\ task_running' = [task_running EXCEPT ![t] = (by # "")]
    /\ UNCHANGED <<fetchVars, maintVars, statusVars, incidentVars, rosterVars, reconVars, pollVars, schedVars, callerVars, extractVars, concVars>>

\* cog_unload cancels the task; loading the cog starts it again
TaskCogUnload(t) ==
    /\ task_running[t]
    /\ task_running' = [task_running EXCEPT ![t] = FALSE]
    /\ UNCHANGED tick_log
    /\ UNCHANGED <<fetchVars, maintVars, statusVars, incidentVars, rosterVars, reconVars, pollVars, schedVars, callerVars, extractVars, concVars>>
TaskCogLoad(t) ==
    /\ ~task_running[t]
    /\ task_running' = [task_running EXCEPT ![t] = TRUE]
    /\ UNCHANGED tick_log
    /\ UNCHANGED <<fetchVars, maintVars, statusVars, incidentVars, rosterVars, reconVars, pollVars, schedVars, callerVars, extractVars, concVars>>


(***************************************************************************)
(* make_request of RSIStatusMonitorCog (rsi_status_monitor.py 47-74) and   *)
(* of RSIIncidentMonitorCog (rsi_incidents_monitor.py 85-110), GET by GET. *)
(***************************************************************************)
Pollers == {"RSIStatusMonitorCog", "RSIIncidentMonitorCog"}

\* What one GET can meet: the outcomes of PollOutcomes and two of the
\* statuses that HttpFetcher treats as transient.
PollResponses ==
    PollOutcomes \cup { [status |-> 429, body |-> "empty"],
                        [status |-> 503, body |-> "empty"] }

PollInit ==
    /\ poll_pc = "idle"
    /\ poller = "none"
    /\ poll_attempt = 0
    /\ poll_responses = <<>>
    /\ poll_result = "pending"
PollIdle == PollInit

\* a caller enters make_request; the session exists
PollCall(p) ==
    /\ poll_pc \in {"idle", "done"}
    /\ poll_pc' = "loop"
    /\ poller' = p
    /\ poll_attempt' = 0
    /\ poll_responses' = <<>>
    /\ poll_result' = "pending"
    /\ UNCHANGED <<fetchVars, maintVars, statusVars, incidentVars, rosterVars, reconVars, taskVars, schedVars, callerVars, extractVars, concVars>>

\* one pass of `for attempt in range(3)`: a 200 returns response.text(),
\* anything else is logged and the loop goes on; after the last pass None
PollAttempt(outcome) ==
    /\ poll_pc = "loop"
    /\ poll_attempt < PollAttempts
    /\ poll_responses' = Append(poll_responses, outcome)
    /\ IF outcome.status = 200
       THEN /\ poll_pc' = "done"
            /\ poll_result' = outcome.body
            /\ UNCHANGED poll_attempt
       ELSE /\ poll_attempt' = poll_attempt + 1
            /\ IF poll_attempt + 1 >= PollAttempts
               THEN poll_pc' = "done" /\ poll_result' = "None"
               ELSE UNCHANGED <<poll_pc, poll_result>>
    /\ UNCHANGED poller
    /\ UNCHANGED <<fetchVars, maintVars, statusVars, incidentVars, rosterVars, reconVars, taskVars, schedVars, callerVars, extractVars, concVars>>

(***************************************************************************)
(* MembershipMonitorCog.daily_checks (membership_monitor.py 292-339)       *)
(***************************************************************************)
MaxDailyRuns == 2
LoopHours == 24             \* @tasks.loop(hours=24)
MinHoursBetweenChecks == 23 \* `if time_since_check < 23`

\* int(RSI_CONFIG['MAINTENANCE_START'].split(':')[0])
target_hour == MAINTENANCE_START \div 60

\* next_run of before_daily_checks for a clock reading t
next_run(t) ==
    LET day == t \div MinutesPerDay
        hour == (t % MinutesPerDay) \div 60
    IN  IF hour >= target_hour
        THEN (day + 1) * MinutesPerDay + target_hour * 60
        ELSE day * MinutesPerDay + target_hour * 60

SchedInit ==
    /\ sched_pc = "before_loop"
    /\ sched_now \in DayTimes
    /\ sched_started = sched_now
    /\ sched_last_check = <<>>
    /\ sched_runs = 0
    /\ sched_fetches = <<>>
SchedIdle ==
    /\ sched_pc = "before_loop"
    /\ sched_now = 0
    /\ sched_started = 0
    /\ sched_last_check = <<>>
    /\ sched_runs = 0
    /\ sched_fetches = <<>>

\* before_daily_checks: sleep_until(next_run)
BeforeDailyChecks ==
    /\ sched_pc = "before_loop"
    /\ sched_now' = next_run(sched_now)
    /\ sched_pc' = "tick_due"
    /\ UNCHANGED <<sched_started, sched_last_check, sched_runs, sched_fetches>>
    /\ UNCHANGED <<fetchVars, maintVars, statusVars, incidentVars, rosterVars, reconVars, taskVars, pollVars, callerVars, extractVars, concVars>>

\* one tick of daily_checks.  cached: the guild's handle set or the roster is
\* in redis, so check_member_roles gets by without crawling.
DailyChecks(cached) ==
    /\ sched_pc = "tick_due"
    /\ sched_runs < MaxDailyRuns
    /\ sched_runs' = sched_runs + 1
    /\ sched_pc' = "sleeping"
    /\ IF /\ sched_last_check # <<>>
          /\ sched_now - sched_last_check[1] < 60 * MinHoursBetweenChecks
       THEN UNCHANGED <<sched_last_check, sched_fetches>>
       ELSE /\ sched_last_check' = <<sched_now>>
            /\ sched_fetches' = IF cached THEN sched_fetches
                                ELSE Append(sched_fetches, sched_now)
    /\ UNCHANGED <<sched_started, sched_now>>
    /\ UNCHANGED <<fetchVars, maintVars, statusVars, incidentVars, rosterVars, reconVars, taskVars, pollVars, callerVars, extractVars, concVars>>

\* the loop sleeps until its next iteration
DailySleep ==
    /\ sched_pc = "sleeping"
    /\ sched_now' = sched_now + 60 * LoopHours
    /\ sched_pc' = "tick_due"
    /\ UNCHANGED <<sched_started, sched_last_check, sched_runs, sched_fetches>>
    /\ UNCHANGED <<fetchVars, maintVars, statusVars, incidentVars, rosterVars, reconVars, taskVars, pollVars, callerVars, extractVars, concVars>>

(***************************************************************************)
(* The body of `for member_item in tree.xpath(...)` of                     *)
(* get_organization_members (rsi_scraper.py 287-331), for an item that has *)
(* a handle.                                                               *)
(***************************************************************************)
MaxPercent == 120

\* The stars element of a member-item: none; one without a style attribute;
\* one whose style has no `: <digits>%`; one whose style has `: %` with no
\* digits; one whose style has `: n%`.
StarsElements ==
    { [kind |-> "no_element", percent |-> 0],
      [kind |-> "no_style", percent |-> 0],
      [kind |-> "no_match", percent |-> 0],
      [kind |-> "no_digits", percent |-> 0] }
    \cup { [kind |-> "percent", percent |-> n] : n \in 0..MaxPercent }
RoleLists == { <<>>, <<"Pilot">> }
MemberItems == [stars : StarsElements, roles : RoleLists]

\* int(int(match.group(1)) / 20)
stars_of_percent(n) == n \div 20

\* The loop body: the record appended to result, or the item skipped
\* because the body raised (attrib["style"] on an element without style,
\* int('') on a percentage without digits).  stars is <<>> when the key is
\* never assigned.
process_member_item(item) ==
    CASE item.stars.kind = "no_element" ->
            [appended |-> TRUE, stars |-> <<0>>, roles |-> item.roles]
      [] item.stars.kind = "no_style" ->
            [appended |-> FALSE, stars |-> <<>>, roles |-> <<>>]
      [] item.stars.kind = "no_digits" ->
            [appended |-> FALSE, stars |-> <<>>, roles |-> <<>>]
      [] item.stars.kind = "no_match" ->
            [appended |-> TRUE, stars |-> <<>>, roles |-> item.roles]
      [] OTHER ->
            [appended |-> TRUE, stars |-> <<stars_of_percent(item.stars.percent)>>,
             roles |-> item.roles]

ExtractInit ==
    /\ member_item \in MemberItems
    /\ item_pc = "at_item"
    /\ user = <<>>
ExtractIdle ==
    /\ member_item = [stars |-> [kind |-> "no_element", percent |-> 0], roles |-> <<>>]
    /\ item_pc = "at_item"
    /\ user = <<>>

ProcessMemberItem ==
    /\ item_pc = "at_item"
    /\ user' = <<process_member_item(member_item)>>
    /\ item_pc' = "processed"
    /\ UNCHANGED member_item
    /\ UNCHANGED <<fetchVars, maintVars, statusVars, incidentVars, rosterVars, reconVars, taskVars, pollVars, schedVars, callerVars, concVars>>

\* the loop goes on to the next member-item
NextMemberItem(item) ==
    /\ item_pc = "processed"
    /\ member_item' = item
    /\ item_pc' = "at_item"
    /\ user' = <<>>
    /\ UNCHANGED <<fetchVars, maintVars, statusVars, incidentVars, rosterVars, reconVars, taskVars, pollVars, schedVars, callerVars, concVars>>

(***************************************************************************)
(* check_status (rsi_status_monitor.py 99-160) run by check_status_task    *)
(* and by /check-status (295-331) in one event loop.  A coroutine gives    *)
(* way to the other only at an await that waits: redis.get, the GET of     *)
(* make_request, redis.set, and the redis calls of record_status_change.   *)
(***************************************************************************)
StatusCallers == {"task", "command"}
MaxPageChanges == 1
ConcurrentCheckTime == 360      \* 06:00, outside the maintenance window

ConcInit ==
    /\ cs_pc = [c \in StatusCallers |-> "idle"]
    /\ cs_content = [c \in StatusCallers |-> <<>>]
    /\ server_page = PageAllOperational
    /\ page_changes = 0
ConcIdle == ConcInit

ConcStatusInit ==
    /\ now = ConcurrentCheckTime
    /\ system_statuses = InitialStatuses
    /\ redis_system_status = <<>>
    /\ status_history = <<>>
    /\ check_log = NoCall

\* the external status page changes
ServerPageChanges(page) ==
    /\ page_changes < MaxPageChanges
    /\ page # server_page
    /\ server_page' = page
    /\ page_changes' = page_changes + 1
    /\ UNCHANGED <<cs_pc, cs_content>>
    /\ UNCHANGED <<fetchVars, maintVars, statusVars, incidentVars, rosterVars, reconVars, taskVars, pollVars, schedVars, callerVars, extractVars>>

\* The tick fires, or the command is run: /check-status answers by itself
\* inside the window, and otherwise check_status starts and waits for
\* redis.get.
CsBegin(c) ==
    /\ cs_pc[c] = "idle"
    /\ cs_pc' = [cs_pc EXCEPT ![c] =
                   IF c = "command"
                      /\ check_maintenance_window(now, MAINTENANCE_START,
                                                  MAINTENANCE_DURATION)
                   THEN "done" ELSE "get_cache"]
    /\ UNCHANGED <<cs_content, server_page, page_changes>>
    /\ UNCHANGED <<fetchVars, maintVars, statusVars, incidentVars, rosterVars, reconVars, taskVars, pollVars, schedVars, callerVars, extractVars>>

\* redis.get answers: the cached snapshot is taken over; or the window
\* branch; or make_request sends its GET.
CsCacheAnswers(c) ==
    /\ cs_pc[c] = "get_cache"
    /\ IF redis_system_status # <<>>
       THEN /\ system_statuses' = redis_system_status[1].value
            /\ cs_pc' = [cs_pc EXCEPT ![c] = "done"]
       ELSE IF check_maintenance_window(now, MAINTENANCE_START, MAINTENANCE_DURATION)
       THEN /\ system_statuses' = [k \in DOMAIN system_statuses |-> "maintenance"]
            /\ cs_pc' = [cs_pc EXCEPT ![c] = "done"]
       ELSE /\ UNCHANGED system_statuses
            /\ cs_pc' = [cs_pc EXCEPT ![c] = "fetching"]
    /\ UNCHANGED <<now, redis_system_status, status_history, check_log>>
    /\ UNCHANGED <<cs_content, server_page, page_changes>>
    /\ UNCHANGED <<fetchVars, maintVars, incidentVars, rosterVars, reconVars, taskVars, pollVars, schedVars, callerVars, extractVars>>

\* the server answers the GET with the page it has now; the body is on its
\* way to the caller
CsServerAnswers(c) ==
    /\ cs_pc[c] = "fetching"
    /\ cs_content' = [cs_content EXCEPT ![c] = <<server_page>>]
    /\ cs_pc' = [cs_pc EXCEPT ![c] = "parse"]
    /\ UNCHANGED <<server_page, page_changes>>
    /\ UNCHANGED <<fetchVars, maintVars, statusVars, incidentVars, rosterVars, reconVars, taskVars, pollVars, schedVars, callerVars, extractVars>>

\* make_request returns None after its three attempts
CsFetchFails(c) ==
    /\ cs_pc[c] = "fetching"
    /\ cs_pc' = [cs_pc EXCEPT ![c] = "done"]
    /\ UNCHANGED <<cs_content, server_page, page_changes>>
    /\ UNCHANGED <<fetchVars, maintVars, statusVars, incidentVars, rosterVars, reconVars, taskVars, pollVars, schedVars, callerVars, extractVars>>

\* response.text() returns: the page is parsed and system_statuses updated
\* without giving way; on a change redis.set is called with the new statuses
CsParse(c) ==
    /\ cs_pc[c] = "parse"
    /\ LET parsed == ParseComponents(cs_content[c][1],
                                     [statuses |-> system_statuses,
                                      status_changed |-> FALSE])
       IN /\ system_statuses' = parsed.statuses
          /\ cs_content' = [cs_content EXCEPT ![c] = <<cs_content[c][1], parsed.statuses>>]
          /\ cs_pc' = [cs_pc EXCEPT ![c] =
                         IF parsed.status_changed THEN "set_cache" ELSE "done"]
    /\ UNCHANGED <<now, redis_system_status, status_history, check_log>>
    /\ UNCHANGED <<server_page, page_changes>>
    /\ UNCHANGED <<fetchVars, maintVars, incidentVars, rosterVars, reconVars, taskVars, pollVars, schedVars, callerVars, extractVars>>

\* redis.set lands, with the statuses the caller parsed
CsSetCache(c) ==
    /\ cs_pc[c] = "set_cache"
    /\ redis_system_status' = <<[value |-> cs_content[c][2], ttl |-> STATUS_TTL]>>
    /\ cs_pc' = [cs_pc EXCEPT ![c] = "record"]
    /\ UNCHANGED <<now, system_statuses, status_history, check_log>>
    /\ UNCHANGED <<cs_content, server_page, page_changes>>
    /\ UNCHANGED <<fetchVars, maintVars, incidentVars, rosterVars, reconVars, taskVars, pollVars, schedVars, callerVars, extractVars>>

\* record_status_change: a copy of system_statuses as it is now is pushed
CsRecord(c) ==
    /\ cs_pc[c] = "record"
    /\ status_history' = record_status_change(status_history, system_statuses, now)
    /\ cs_pc' = [cs_pc EXCEPT ![c] = "done"]
    /\ UNCHANGED <<now, system_statuses, redis_system_status, check_log>>
    /\ UNCHANGED <<cs_content, server_page, page_changes>>
    /\ UNCHANGED <<fetchVars, maintVars, incidentVars, rosterVars, reconVars, taskVars, pollVars, schedVars, callerVars, extractVars>>

InitFetch == FetchInit /\ MaintIdle /\ StatusIdle /\ IncidentIdle /\ RosterIdle /\ ReconIdle /\ ConcIdle /\ ExtractIdle /\ CallerIdle /\ SchedIdle /\ PollIdle /\ TaskIdle
NextFetch ==
    \/ \E m \in {"get", "post"} : MakeRequestCall(m)
    \/ \E o \in Outcomes : MakeRequestAttempt(o)
    \/ MakeRequestExhausted
SpecFetch == InitFetch /\ [][NextFetch]_vars
\* Every request is bounded by the ClientTimeout of the call, so an iteration
\* that can run does run.
SpecFetchFair ==
    /\ SpecFetch
    /\ WF_vars(\E o \in Outcomes : MakeRequestAttempt(o))
    /\ WF_vars(MakeRequestExhausted)

InitMaint == FetchInit /\ MaintInit /\ StatusIdle /\ IncidentIdle /\ RosterIdle /\ ReconIdle /\ ConcIdle /\ ExtractIdle /\ CallerIdle /\ SchedIdle /\ PollIdle /\ TaskIdle
NextMaint == CheckMaintenanceWindow
SpecMaint == InitMaint /\ [][NextMaint]_vars

InitStatus == FetchInit /\ MaintIdle /\ StatusInit /\ IncidentIdle /\ RosterIdle /\ ReconIdle /\ ConcIdle /\ ExtractIdle /\ CallerIdle /\ SchedIdle /\ PollIdle /\ TaskIdle
NextStatus ==
    \/ \E page \in Pages, script \in PollScripts : CheckStatusTask(page, script)
    \/ \E page \in Pages, script \in PollScripts : CheckStatusCommand(page, script)
    \/ \E page \in Pages, script \in PollScripts : ForceCheck(page, script)
    \/ \E t \in CheckTimes : AdvanceClock(t)
    \/ CogReload
SpecStatus == InitStatus /\ [][NextStatus]_vars

\* the status poller with a server that may also serve PageUnlistedStatus
NextStatusAnyPage ==
    \/ NextStatus
    \/ \E script \in PollScripts : CheckStatusTask(PageUnlistedStatus, script)
SpecStatusAnyPage == InitStatus /\ [][NextStatusAnyPage]_vars

InitIncident ==
    /\ FetchInit /\ MaintIdle /\ IncidentInit /\ RosterIdle /\ ReconIdle /\ ConcIdle /\ ExtractIdle /\ CallerIdle /\ SchedIdle /\ PollIdle /\ TaskIdle
    /\ now \in IncidentTimes
    /\ system_statuses = InitialStatuses
    /\ redis_system_status = <<>>
    /\ status_history = <<>>
    /\ check_log = NoCall
NextIncident ==
    \/ \E feed \in Feeds, script \in FeedScripts, notify \in Notifications :
          IncidentTaskTick(feed, script, notify)
    \/ \E notify \in Notifications : IncidentTaskStore(notify)
    \/ \E feed \in Feeds, script \in FeedScripts : ForceCheckIncident(feed, script)
    \/ ForceCheckStore
    \/ \E t \in IncidentTimes : AdvanceClock(t)
    \/ IncidentCogUnload
    \/ IncidentCogLoad
SpecIncident == InitIncident /\ [][NextIncident]_vars

InitRoster == FetchInit /\ MaintIdle /\ StatusIdle /\ IncidentIdle /\ RosterInit /\ ReconIdle /\ ConcIdle /\ ExtractIdle /\ CallerIdle /\ SchedIdle /\ PollIdle /\ TaskIdle
NextRoster ==
    \/ GetOrgMembersCall
    \/ \E answer \in ServerAnswers : CrawlPage(answer)
    \/ \E answer \in ServerAnswers : CrawlPageBeyond(answer)
    \/ RosterKeyExpires
    \/ \E p \in 1..MaxCrawlPages : PageKeyExpires(p)
SpecRoster == InitRoster /\ [][NextRoster]_vars

\* The same with a redis that may raise.
NextRosterRefresh ==
    \/ NextRoster
    \/ RefreshOrgData
SpecRosterRefresh == InitRoster /\ [][NextRosterRefresh]_vars

NextRosterFaults ==
    \/ NextRoster
    \/ GetOrgMembersCallRedisDown
    \/ \E answer \in ServerAnswers, fault \in RedisFaults :
          CrawlPageRedisFault(answer, fault)
SpecRosterFaults == InitRoster /\ [][NextRosterFaults]_vars
InitRecon ==
    FetchInit /\ MaintIdle /\ StatusIdle /\ IncidentIdle /\ RosterIdle /\ ReconInit /\ ConcIdle /\ ExtractIdle /\ CallerIdle /\ SchedIdle /\ PollIdle /\ TaskIdle
NextRecon ==
    \/ CheckMemberRoles
    \/ GuildHandlesExpire
SpecRecon == InitRecon /\ [][NextRecon]_vars

SpecRosterFair ==
    SpecRoster /\ WF_vars(\E answer \in ServerAnswers :
                            CrawlPage(answer) \/ CrawlPageBeyond(answer))

NextReconFaults ==
    \/ NextRecon
    \/ CheckMemberRolesFetchFails
SpecReconFaults == InitRecon /\ [][NextReconFaults]_vars

InitHistory ==
    /\ FetchInit /\ MaintIdle /\ IncidentIdle /\ RosterIdle /\ ReconIdle /\ ConcIdle /\ ExtractIdle /\ CallerIdle /\ SchedIdle /\ PollIdle /\ TaskIdle
    /\ HistoryInit
NextHistory ==
    \/ FlappingTick
    \/ FlappingSleep
SpecHistory == InitHistory /\ [][NextHistory]_vars

InitPoll ==
    FetchInit /\ MaintIdle /\ StatusIdle /\ IncidentIdle /\ RosterIdle /\ ReconIdle /\ ConcIdle /\ ExtractIdle /\ CallerIdle /\ SchedIdle /\ TaskIdle /\ PollInit
NextPoll ==
    \/ \E p \in Pollers : PollCall(p)
    \/ \E outcome \in PollResponses : PollAttempt(outcome)
SpecPoll == InitPoll /\ [][NextPoll]_vars

InitSched ==
    /\ FetchInit /\ MaintIdle /\ StatusIdle /\ IncidentIdle /\ RosterIdle /\ ReconIdle /\ ConcIdle /\ ExtractIdle /\ CallerIdle
    /\ TaskIdle /\ PollIdle /\ SchedInit
NextSched ==
    \/ BeforeDailyChecks
    \/ \E cached \in BOOLEAN : DailyChecks(cached)
    \/ DailySleep
SpecSched == InitSched /\ [][NextSched]_vars

InitExtract ==
    /\ FetchInit /\ MaintIdle /\ StatusIdle /\ IncidentIdle /\ RosterIdle /\ ReconIdle /\ ConcIdle
    /\ TaskIdle /\ PollIdle /\ SchedIdle /\ CallerIdle /\ ExtractInit
NextExtract ==
    \/ ProcessMemberItem
    \/ \E item \in MemberItems : NextMemberItem(item)
SpecExtract == InitExtract /\ [][NextExtract]_vars

InitConc ==
    /\ FetchInit /\ MaintIdle /\ IncidentIdle /\ RosterIdle /\ ReconIdle
    /\ TaskIdle /\ PollIdle /\ SchedIdle /\ CallerIdle /\ ExtractIdle
    /\ ConcStatusInit /\ ConcInit
NextConc ==
    \/ \E page \in Pages : ServerPageChanges(page)
    \/ \E c \in StatusCallers : CsBegin(c)
    \/ \E c \in StatusCallers : CsCacheAnswers(c)
    \/ \E c \in StatusCallers : CsServerAnswers(c)
    \/ \E c \in StatusCallers : CsFetchFails(c)
    \/ \E c \in StatusCallers : CsParse(c)
    \/ \E c \in StatusCallers : CsSetCache(c)
    \/ \E c \in StatusCallers : CsRecord(c)
SpecConc == InitConc /\ [][NextConc]_vars

InitTasks ==
    FetchInit /\ MaintIdle /\ StatusIdle /\ IncidentIdle /\ RosterIdle /\ ReconIdle /\ ConcIdle /\ ExtractIdle /\ CallerIdle /\ SchedIdle /\ PollIdle /\ TaskInit
NextTasks ==
    \/ \E t \in Tasks : TaskTickClean(t)
    \/ \E t \in Tasks : \E point \in DOMAIN RaisePoints[t] : TaskTickRaises(t, point)
    \/ \E t \in Tasks : TaskCogUnload(t)
    \/ \E t \in Tasks : TaskCogLoad(t)
SpecTasks == InitTasks /\ [][NextTasks]_vars

(***************************************************************************)
(* Properties of _make_request                                             *)
(***************************************************************************)
\* The transient statuses and the attempt limit as the specification states
\* them (section 4.1), independent of the code's tables.
TransientStatuses == {408, 429, 500, 502, 503, 504}
MaxAttempts == 5

OkResponse == [status |-> 200, error |-> "none"]
IsTransientStatus(o) == o.status \in TransientStatuses /\ o.error = "none"
IsRetryable(o) == IsTransientStatus(o) \/ o.error \in {"timeout", "client"}
CanAttempt == ENABLED (\E o \in Outcomes : MakeRequestAttempt(o))
InCall == fetch_pc \in {"loop", "done"}

\* C1: for every k below the maximum attempt count, a call whose first k
\* responses carry a transient status is still trying (the next request can be
\* issued), and when the (k+1)-th response is 200 the call has returned that
\* response after exactly k+1 requests.
C1_RetryThenSuccess ==
    InCall =>
      \A k \in 0..(MaxAttempts - 1) :
        /\ (Len(responses) = k /\ \A i \in 1..k : IsTransientStatus(responses[i]))
             => (fetch_pc = "loop" /\ result = "pending" /\ requests = k /\ CanAttempt)
        /\ (/\ Len(responses) = k + 1
            /\ \A i \in 1..k : IsTransientStatus(responses[i])
            /\ responses[k + 1] = OkResponse)
             => (fetch_pc = "done" /\ result = "response" /\ requests = k + 1)

\* 503, 503, 200: success after exactly 3 attempts.
C1_Witness ==
    /\ fetch_pc = "done"
    /\ result = "response"
    /\ requests = 3
    /\ Len(responses) = 3
    /\ responses[1].status = 503
    /\ responses[2].status = 503
    /\ responses[3] = OkResponse

\* C2: a response whose status is neither 200 nor transient ends the call with
\* failure and is the last request of the call; as the first response it makes
\* the call fail after exactly 1 attempt.
C2_NoRetryOnOtherStatus ==
    InCall =>
      \A i \in 1..Len(responses) :
        (responses[i].status # 0 /\ responses[i].status # 200
           /\ responses[i].status \notin TransientStatuses)
          => (i = Len(responses) /\ fetch_pc = "done" /\ result = "None"
                /\ requests = i)

\* C3: a call never issues more than the maximum number of requests; when
\* every attempt ended in a retryable condition the finished call returned None
\* after exactly that many; and a running call always finishes.
C3_Bounded ==
    /\ requests <= MaxAttempts
    /\ Len(responses) = requests
    /\ (fetch_pc = "done" /\ \A i \in 1..Len(responses) : IsRetryable(responses[i]))
         => (result = "None" /\ requests = MaxAttempts)
C3_BoundedAndTerminates ==
    /\ []C3_Bounded
    /\ ((fetch_pc = "loop") ~> (fetch_pc = "done"))

\* Five retryable attempts, then failure.
C3_Witness ==
    /\ fetch_pc = "done"
    /\ result = "None"
    /\ requests = MaxAttempts
    /\ \A i \in 1..Len(responses) : IsRetryable(responses[i])

\* C4: after an attempt that timed out or raised a client error the call goes
\* on to the next attempt unless the maximum is reached (then it fails); any
\* other exception ends the call at once with failure.
C4_ExceptionPolicy ==
    (InCall /\ Len(responses) > 0) =>
      LET n == Len(responses)
          last == responses[n]
      IN /\ \A i \in 1..(n - 1) : responses[i].error # "other"
         /\ last.error = "other" => (fetch_pc = "done" /\ result = "None")
         /\ (last.error \in {"timeout", "client"} /\ n < MaxAttempts)
              => (fetch_pc = "loop" /\ result = "pending" /\ CanAttempt)
         /\ (last.error \in {"timeout", "client"} /\ n = MaxAttempts)
              => (~CanAttempt /\ result \in {"pending", "None"}
                    /\ (fetch_pc = "done" => result = "None"))

\* A timeout is followed by a second attempt, whose client error is followed
\* by a third, whose unexpected exception ends the call.
C4_Witness ==
    /\ Len(responses) = 3
    /\ responses[1] = [status |-> 0, error |-> "timeout"]
    /\ responses[2] = [status |-> 0, error |-> "client"]
    /\ responses[3] = [status |-> 0, error |-> "other"]
    /\ fetch_pc = "done"
    /\ result = "None"
    /\ requests = 3

(***************************************************************************)
(* Properties of check_maintenance_window                                  *)
(***************************************************************************)
\* t lies in the daily interval [start, start + hours] taken modulo 24 hours.
InDailyInterval(t, start, hours) ==
    ((t - start) % MinutesPerDay) <= 60 * hours

\* C9: check_maintenance_window answers true exactly for the times of day in
\* [start, start + duration] modulo 24 hours, for every start time and every
\* duration of 1 to 24 whole hours.
C9_WindowIsDailyInterval ==
    (mw_result # "unset") =>
      ((mw_result = "True") <=> InDailyInterval(mw_now, mw_start, mw_duration))

(***************************************************************************)
(* Properties of the status poller                                         *)
(***************************************************************************)
\* The configured window as the specification states it: 22:00 for 3 hours.
InWindow(t) == InDailyInterval(t, 22 * 60, 3)
AllMaintenance == [k \in Systems |-> "maintenance"]

\* A step in which check_status ran (for the scheduled task or a command).
CheckStep == check_log'.caller # "none" /\ check_log'.tick # check_log.tick

\* The monitored systems a page lists, each with the status it gives.
Listed(page) ==
    { <<SystemOf(page[i].name), data_status(page[i])>> :
        i \in { j \in 1..Len(page) : /\ page[j].name # NoSpan
                                     /\ page[j].status # NoSpan
                                     /\ SystemOf(page[j].name) \in Systems } }

\* At least one monitored system's fetched status differs from the snapshot.
Differs(page, snapshot) == \E p \in Listed(page) : snapshot[p[1]] # p[2]

\* The snapshot was persisted and logged exactly once in this step.
PersistedOnce ==
    /\ redis_system_status' = <<[value |-> system_statuses', ttl |-> 300]>>
    /\ status_history' # <<>>
    /\ Head(status_history') = [timestamp |-> now, statuses |-> system_statuses']
    /\ Tail(status_history') = status_history
NothingPersisted == UNCHANGED <<redis_system_status, status_history>>

C7_MaintenanceShortCircuit ==
    [][ (CheckStep /\ InWindow(now)) =>
          (check_log'.returned = <<AllMaintenance>> /\ check_log'.requests = 0)
      ]_vars

RowsOf(g) == { i \in 1..Len(incident_history) : incident_history[i].guid = g }

\* C10: once an incident with a given guid has been inserted twice (one after
\* the other, or by the scheduled tick and a forced check racing), exactly one
\* record with that guid is stored, it has the content of the first insert,
\* and no caller was left with an error.
C10_InsertIdempotent ==
    \A g \in Guids :
      insert_count[g] >= 2 =>
        /\ Cardinality(RowsOf(g)) = 1
        /\ \A i \in RowsOf(g) : <<incident_history[i]>> = first_inserted[g]
        /\ \A c \in Callers : inc_pc[c] \in {"idle", "store"}

\* The same, where incident_history is the table of the cog's own
\* setup_database.
C10_DedupWithCogTable ==
    incident_table = "setup_database" => C10_InsertIdempotent

(***************************************************************************)
(* Properties of the incident poller                                       *)
(***************************************************************************)
\* What a tick does with guid g: nothing when g is the last-seen guid, one
\* event and g as the last-seen guid otherwise.
ComparedWithLastSeen(g) ==
    IF g = inc_log.before
    THEN inc_log.events = 0 /\ inc_log.after = inc_log.before
    ELSE inc_log.events = 1 /\ inc_log.after = g

C12_LastSeenSurvivesRestart ==
    \A i \in 1..(Len(emitted) - 1) : emitted[i].guid # emitted[i + 1].guid

\* C13: the entry titled "Major PU outage" with guid X1 and status tag
\* "major-outage" is stored with status "major-outage" and its event has
\* urgency major; and an event's urgency is major exactly when the status it
\* was classified with is a major one.
MajorSeverities == {"major", "major-outage"}
C13_StatusFromTag ==
    /\ \A i \in 1..Len(incident_history) :
         incident_history[i].title = EntryMajor.title =>
           incident_history[i].status = "major-outage"
    /\ \A i \in 1..Len(emitted) :
         /\ emitted[i].title = EntryMajor.title =>
              emitted[i].status = "major-outage" /\ emitted[i].urgency = "major"
         /\ emitted[i].urgency = "major" <=> emitted[i].status \in MajorSeverities

(***************************************************************************)
(* Properties of the roster crawl                                          *)
(***************************************************************************)
RECURSIVE RecordsOf(_)
RecordsOf(calls) ==
    IF calls = <<>> THEN <<>>
    ELSE RecordsOf(SubSeq(calls, 1, Len(calls) - 1)) \o calls[Len(calls)].members

IsShort(call) == Len(call.members) < MEMBERS_PER_PAGE

\* C14: a crawl asks for pages 1, 2, 3, ... in order, asks for no page after
\* the first page with fewer than 32 records (it is over as soon as it got
\* one), and every record of the pages it got is in its list, which is what
\* it returns.
C14_StopsAtFirstShortPage ==
    /\ \A i \in 1..Len(page_calls) : page_calls[i].page = i
    /\ \A i \in 1..(Len(page_calls) - 1) : ~IsShort(page_calls[i])
    /\ (page_calls # <<>> /\ IsShort(page_calls[Len(page_calls)])) => crawl_pc = "done"
    /\ crawl_pc \in {"loop", "done"} /\ page_calls # <<>> =>
         crawl_members = RecordsOf(page_calls)
    /\ crawl_pc = "done" /\ page_calls # <<>> => crawl_result = crawl_members

\* A crawl got a full page 1 and a short page 2 and returned their 34 records.
C14_Witness ==
    /\ crawl_pc = "done"
    /\ Len(page_calls) = 2
    /\ ~IsShort(page_calls[1]) /\ IsShort(page_calls[2])
    /\ Len(crawl_result) = MEMBERS_PER_PAGE + 2

\* C15: the list a crawl returns never holds two records whose handles are
\* equal when compared case-insensitively.
C15_NoDuplicateHandles ==
    crawl_pc = "done" =>
      \A i, j \in 1..Len(crawl_result) :
         i # j => Lower(crawl_result[i].handle) # Lower(crawl_result[j].handle)

\* C16: every crawl comes to an end, whatever the server answers.
C16_CrawlTerminates ==
    (crawl_pc = "loop") ~> (crawl_pc = "done")

(***************************************************************************)
(* Properties of the reconciliation                                        *)
(***************************************************************************)
Linked(m) == rsi_members[m] # <<>>
InRoster(m) == \E h \in org_roster : Lower(h) = Lower(StoredHandle[m])
RankBefore(m) == CurrentRank(roles_before[m])
ChangesOf(m) == SelectSeq(demotion_log, LAMBDA e : e.member = m)
AboveAffiliateMax == {"Executive", "Chairman", "Magnate"}
Change(m, new_rank, reason) ==
    [member |-> m, old_rank |-> RankBefore(m), new_rank |-> new_rank,
     reason |-> reason]

C19_NoChangeOtherwise ==
    recon_runs >= 1 =>
      /\ \A m \in Members :
           /\ Linked(m) /\ InRoster(m)
           /\ \/ rsi_members[m][1].org_status = "Main"
              \/ /\ rsi_members[m][1].org_status = "Affiliate"
                 /\ RankBefore(m) \notin AboveAffiliateMax
           => ChangesOf(m) = <<>> /\ member_roles[m] = roles_before[m]
      /\ \A i \in 1..Len(demotion_log) :
           demotion_log[i].new_rank # demotion_log[i].old_rank

\* A run left a Main member who is an Executive and an Affiliate who is a
\* Team Leader, both in the roster, alone.
C19_Witness ==
    /\ recon_runs = 1
    /\ \E m, n \in Members :
         /\ Linked(m) /\ InRoster(m) /\ Linked(n) /\ InRoster(n)
         /\ rsi_members[m][1].org_status = "Main" /\ RankBefore(m) = "Executive"
         /\ rsi_members[n][1].org_status = "Affiliate" /\ RankBefore(n) = "Team Leader"
         /\ demotion_log = <<>>

\* C20: a second run, with the roster and the membership table unchanged and
\* the first run's changes applied, produces no change.
C20_SecondRunNoChange ==
    recon_runs = 2 => demotion_log = <<>>

\* The same, in a guild whose role list has the rank roles in the order of
\* ROLE_HIERARCHY.
C20_SecondRunNoChangeOrdered ==
    guild_roles = ROLE_HIERARCHY => C20_SecondRunNoChange

(***************************************************************************)
(* Properties of the roster caches                                         *)
(***************************************************************************)
\* C21: a page whose latest fetch found, legitimately, no member is known to
\* be empty for the length of the per-page TTL: a request for it within that
\* time is answered from the cache, without an HTTP request.
C21_KnownEmptyFromCache ==
    \A i \in 1..Len(page_calls) :
       page_calls[i].known_empty => page_calls[i].source = "cache"

\* C22: a redis error during a page request or at the end of the crawl is
\* not fatal: the page is still fetched over HTTP and its records returned,
\* and the crawl still returns the records it collected.
C22_CacheErrorDegradesToFetch ==
    /\ \A i \in 1..Len(page_calls) :
         LET call == page_calls[i] IN
         /\ call.fault = "get" =>
              /\ call.source \in ServerAnswers
              /\ call.members = Extracted(call.source, call.page)
         /\ call.fault = "set" /\ call.source \in ServerAnswers =>
              call.members = Extracted(call.source, call.page)
    /\ crawl_pc = "done" /\ page_calls # <<>> => crawl_result = crawl_members

\* C26: a crawl that returns a non-empty list leaves that list under the
\* roster-level key, which is not one of the per-page keys; while the key
\* lives it keeps that list, and a call of get_org_members returns the list
\* it holds without asking for any page.
C26_RosterKeyServesCalls ==
    [][ /\ (crawl_pc = "loop" /\ crawl_pc' = "done" /\ crawl_result' # <<>>) =>
             redis_org_members' = <<crawl_result'>>
        /\ (redis_org_members # <<>> /\ redis_org_members' # <<>>) =>
             redis_org_members' = redis_org_members
        /\ (GetOrgMembersCall /\ redis_org_members # <<>>) =>
             /\ crawl_pc' = "done"
             /\ crawl_result' = redis_org_members[1]
             /\ page_calls' = <<>>
             /\ UNCHANGED <<redis_org_page, empty_pages>>
      ]_vars

\* A call was answered with the list of two pages held by the roster-level
\* key, no page asked for.
C26_Witness ==
    /\ crawl_pc = "done"
    /\ page_calls = <<>>
    /\ Len(crawl_result) = MEMBERS_PER_PAGE + 2
    /\ redis_org_members = <<crawl_result>>

\* C29: when a page request fails after at least one full page, the records
\* collected so far are neither written to the roster-level key nor returned
\* as the roster.
FailedMidCrawl ==
    /\ crawl_pc = "done"
    /\ Len(page_calls) >= 2
    /\ page_calls[Len(page_calls)].source = "failed"
C29_PartialRosterNotCached ==
    FailedMidCrawl =>
      /\ redis_org_members # <<crawl_members>>
      /\ crawl_result # crawl_members

\* C23: a tick of the status or incident task in which a call raises leaves
\* the task scheduled: the exception is swallowed at or inside the task
\* function, and the task can tick again.
TickedTask ==
    IF Len(tick_log') = Len(tick_log) + 1 THEN tick_log'[Len(tick_log')].task ELSE ""
C23_FailedTickKeepsTask ==
    [][ \A t \in Tasks :
          (TickedTask = t /\ task_running[t]) =>
             /\ task_running'[t]
             /\ tick_log'[Len(tick_log')].point # "none" =>
                   tick_log'[Len(tick_log')].caught_by # ""
      ]_vars
C23_Witness ==
    /\ \E i \in 1..Len(tick_log) :
          /\ tick_log[i].task = "check_incidents_task"
          /\ tick_log[i].point = "embed"
          /\ tick_log[i].caught_by = "check_incidents_task"
    /\ \E i \in 1..Len(tick_log) :
          /\ tick_log[i].task = "check_status_task"
          /\ tick_log[i].point # "none"
    /\ \A t \in Tasks : task_running[t]

\* C24: the statuses held in memory, the snapshot in the cache, every
\* snapshot in the history and every snapshot returned by check_status have
\* exactly the three monitored systems as keys.
C24_SnapshotKeys ==
    /\ DOMAIN system_statuses = Systems
    /\ redis_system_status # <<>> => DOMAIN redis_system_status[1].value = Systems
    /\ \A i \in 1..Len(status_history) : DOMAIN status_history[i].statuses = Systems
    /\ check_log.returned # <<>> => DOMAIN check_log.returned[1] = Systems
C24_Witness ==
    /\ check_log.fetched
    /\ check_log.page = PagePartial
    /\ status_history # <<>>
    /\ redis_system_status # <<>>
    /\ system_statuses["persistent-universe"] = "major"

\* C25: the status history never holds more than 100 entries, its entries
\* are in newest-first order, and a step that changes it puts one new entry
\* at the front, keeps the entries that were there as they were and in their
\* order, and drops only from the old end.
HistoryBounded == Len(status_history) <= HistoryKeep
HistoryNewestFirst ==
    \A i \in 1..Len(status_history) : \A j \in 1..Len(status_history) :
        i < j => status_history[i].timestamp > status_history[j].timestamp
HistoryPushDrop ==
    status_history' # status_history =>
      /\ Len(status_history') =
            (IF Len(status_history) < HistoryKeep THEN Len(status_history) + 1
             ELSE HistoryKeep)
      /\ status_history'[1].timestamp = now
      /\ status_history'[1].statuses = system_statuses'
      /\ SubSeq(status_history', 2, Len(status_history')) =
            SubSeq(status_history, 1, Len(status_history') - 1)
C27_PollerNoRetryOnOtherStatus ==
    \A i \in 1..Len(poll_responses) :
       (poll_responses[i].status # 0 /\ poll_responses[i].status # 200
          /\ poll_responses[i].status \notin TransientStatuses)
         => (i = Len(poll_responses) /\ poll_pc = "done" /\ poll_result = "None")

\* C30: no run of daily_checks begins to crawl the roster at a time of day
\* inside [MAINTENANCE_START, MAINTENANCE_START + MAINTENANCE_DURATION].
C30_NoFetchInWindow ==
    \A i \in 1..Len(sched_fetches) :
       ~InDailyInterval(sched_fetches[i] % MinutesPerDay,
                        MAINTENANCE_START, MAINTENANCE_DURATION)

\* C28: a run of check_member_roles whose roster fetch failed changes no
\* member's roles and returns an empty list of changes.
C28_FetchFailureChangesNothing ==
    recon_fetch = "failed" =>
      /\ demotion_log = <<>>
      /\ member_roles = roles_before

\* C34: every status in the snapshot held in memory, in the cached snapshot
\* and in the snapshots of the history is one of operational, degraded,
\* partial, major, maintenance, unknown.
C34_StatusInEnum ==
    /\ \A k \in DOMAIN system_statuses : system_statuses[k] \in STATUS_EMOJIS
    /\ redis_system_status # <<>> =>
          \A k \in DOMAIN redis_system_status[1].value :
              redis_system_status[1].value[k] \in STATUS_EMOJIS
    /\ \A i \in 1..Len(status_history) :
          \A k \in DOMAIN status_history[i].statuses :
              status_history[i].statuses[k] \in STATUS_EMOJIS

\* C36: a call of check_status that takes the maintenance-window branch
\* leaves the statuses held in memory, the cached snapshot and the history
\* as they were.
WindowShortCircuit ==
    /\ check_log' # check_log
    /\ check_log'.caller # "none"
    /\ redis_system_status = <<>>
    /\ check_maintenance_window(now, MAINTENANCE_START, MAINTENANCE_DURATION)
C36_ShortCircuitKeepsSnapshot ==
    [][ WindowShortCircuit =>
          UNCHANGED <<system_statuses, redis_system_status, status_history>> ]_vars

\* C37: after a run of check_member_roles, on the path that fetched the
\* roster and on the path that read the cached handle set, no linked member
\* whose stored handle equals a roster handle up to letter case has a
\* not_in_org change.
SpellingsOfOneHandle == { {"Alpha", "alpha"}, {"Bravo", "bravo"} }
SameHandle(a, b) == a = b \/ \E sp \in SpellingsOfOneHandle : a \in sp /\ b \in sp
ListedIgnoringCase(m) == \E h \in org_roster : SameHandle(h, StoredHandle[m])
C37_HandlesMatchIgnoringCase ==
    recon_fetch \in {"fetched", "cached"} =>
      \A m \in Members :
         (Linked(m) /\ ListedIgnoringCase(m)) =>
            \A i \in 1..Len(demotion_log) :
               ~(demotion_log[i].member = m /\ demotion_log[i].reason = "not_in_org")
C37_Witness ==
    /\ recon_fetch = "cached"
    /\ \A m \in Members :
          /\ Linked(m)
          /\ ListedIgnoringCase(m)
          /\ StoredHandle[m] \notin org_roster
          /\ rsi_members[m][1].org_status = "Main"
          /\ CurrentRank(member_roles[m]) = "Executive"

\* C35: a tick of check_incidents_task that begins inside the maintenance
\* window issues no GET, gets no incident to store, raises no event and
\* leaves the last-seen guid as it was.
C35_WindowTickDoesNothing ==
    /\ InDailyInterval(now, MAINTENANCE_START, MAINTENANCE_DURATION) =>
          \A script \in FeedScripts : feed_requests(FALSE, script) = 0
    /\ InDailyInterval(inc_log.at, MAINTENANCE_START, MAINTENANCE_DURATION) =>
          /\ inc_log.got = <<>>
          /\ inc_log.events = 0
          /\ inc_log.after = inc_log.before
C35_Witness ==
    /\ InDailyInterval(inc_log.at, MAINTENANCE_START, MAINTENANCE_DURATION)
    /\ inc_log.served # <<>>
    /\ inc_log.got = <<>>
    /\ redis_latest_incident # <<>>
    /\ last_incident_guid # <<redis_latest_incident[1].value.guid>>

\* C38: a guid is recorded as last seen only when its notification was
\* delivered, so that a guid whose notification failed is announced by a
\* later tick that still sees it.
C38_LastSeenWasAnnounced ==
    last_incident_guid # <<>> =>
       \E i \in 1..Len(announced) : announced[i].guid = last_incident_guid[1]

\* C33: while get_org_members runs for /draxon-refresh, and when it has
\* returned, none of its page calls was answered from a per-page cache
\* entry.
C33_RefreshFetchesEveryPage ==
    crawl_caller = "refresh_org_data" =>
       \A i \in 1..Len(page_calls) : page_calls[i].source # "cache"

\* C32: every record the member-item loop appends has a star rating that is
\* an integer from 0 to 5, which is 0 when the item gives no parsable
\* rating, and a role list.
C32_StarsZeroToFive ==
    (item_pc = "processed" /\ user[1].appended) =>
       /\ user[1].stars # <<>>
       /\ user[1].stars[1] \in 0..5
       /\ member_item.stars.kind # "percent" => user[1].stars = <<0>>
       /\ user[1].roles = member_item.roles

\* C31: with the tick and /check-status running check_status at once, the
\* history never has more entries than the page has had changes, and once
\* both have returned after a change that was recorded, system_statuses is
\* what the server's page says.
PageStatuses(page) ==
    ParseComponents(page, [statuses |-> InitialStatuses,
                           status_changed |-> FALSE]).statuses
C31_OneChangeOneEntry ==
    /\ Len(status_history) <= page_changes
    /\ ((\A c \in StatusCallers : cs_pc[c] = "done") /\ status_history # <<>>) =>
          system_statuses = PageStatuses(server_page)

====
